---- MODULE Spec2Model ----
(***************************************************************************)
(* Ocean kernel core: scheduler run queue, rendezvous IPC on an endpoint,  *)
(* address-space VMA lists with copy-on-write, and the buddy allocator.    *)
(*                                                                         *)
(* The machine is a uniprocessor (nr_cpus = 1).  Exactly one thread, the   *)
(* one named by current_thread, executes; every action below is a step of  *)
(* that thread or of an interrupt taken while it runs.  A section of code  *)
(* that runs under a spinlock or with interrupts disabled is one action.   *)
(***************************************************************************)
EXTENDS Integers, Sequences, FiniteSets, TLC

(* ---------------------------------------------------------------------- *)
(* Bounds of the model                                                     *)
(* ---------------------------------------------------------------------- *)
NThreads == 3
MaxOps == 2
MaxTicks == 3
MaxSchedOps == 1
MaxSchedTicks == 3
NPrioArgs == 2
ZonePages == 8
MaxAllocOrder == 3
MaxBuddyOps == 4
NFrames == 4
NVPages == 3
MaxAs == 2
MaxSize == 1
MaxVmOps == 3
NCSpaces == 2
CSlots == 2
NCapThreads == 2
MaxCapOps == 2
MaxPid == 4
MaxProcTicks == 3

(* ---------------------------------------------------------------------- *)
(* Program constants                                                       *)
(* ---------------------------------------------------------------------- *)
MAX_PRIO == 140
MAX_RT_PRIO == 100
DEFAULT_PRIO == MAX_RT_PRIO + 20
HZ == 100
TICK_NS == 1000000000 \div HZ
DEFAULT_TIME_SLICE == 10 * 1000 * 1000

TASK_RUNNING == 0
TASK_INTERRUPTIBLE == 1
TASK_UNINTERRUPTIBLE == 2
TASK_ZOMBIE == 4
TASK_DEAD == 5

IPC_OK == 0
IPC_ERR_INVALID == 1
IPC_ERR_DEAD == 2
IPC_ERR_NOPARTNER == 6

IPC_OP_SEND == 1
IPC_OP_RECV == 2

(* Thread identities: 0 is the per-CPU idle thread, 1..NThreads are the    *)
(* kernel threads created by kthread_create and started by thread_start.   *)
Idle == 0
Threads == 1..NThreads
AllThreads == 0..NThreads
NoThread == -1

(* The workload: thread 1 runs the receiver loop and thread 2 the sender  *)
(* loop of kernel/ipc/test.c, thread 3 issues SYS_ENDPOINT_DESTROY; more   *)
(* threads repeat the pattern.                                             *)
Role(t) == IF t % 3 = 1 THEN "recv" ELSE IF t % 3 = 2 THEN "send" ELSE "destroy"

(* Workload of thread t in the scheduler specifications *)
SchedRole(t) == IF t % 3 = 1 THEN "sleeper" ELSE IF t % 3 = 2 THEN "waker" ELSE "tuner"

(* Priorities handed to sched_set_priority: 100, 160 (clamped to 139), ... *)
PrioArgs == {MAX_RT_PRIO + 60 * i : i \in 0..(NPrioArgs - 1)}

(* Wait channels: the address of a thread's on-stack ipc_wait record,      *)
(* the address of a kernel object threads sleep on, or NULL.                *)
NullChan == <<"null">>
WaitChan(t) == <<"ipc_wait", t>>
SleepChan == <<"object">>

(* Processes: slots of the process table, NULL, PIDs *)
Procs == 1..NThreads
NoProc == 0
NoPid == -1
PID_MAX == MaxPid + 1
PidArgs == 0..PID_MAX

(* struct process *init_process = NULL; nothing assigns it *)
init_process == NoProc

(* The channel a parent sleeps on in process_wait: its struct process *)
ProcChan(s) == <<"process", s>>

VARIABLES
    rq,         \* struct run_queue of CPU 0 plus current_thread, _preempt_count
    thread,     \* struct thread, per thread
    ep,         \* the struct ipc_endpoint under test
    wait,       \* struct ipc_wait on each thread's stack
    msg,        \* struct ipc_message on each thread's stack
    pc,         \* position of each thread in its code
    call,       \* per thread: locals of the call in progress
    recv_log,   \* history: per label, how many ipc_recv calls returned IPC_OK with it
    ipc_log,    \* history: the messages handed over and those ipc_recv returned, in order
    panicked,   \* the kernel took a fatal fault and halted
    mm,         \* address spaces, page tables and page frames
    pmm,        \* struct zone and struct page array of the buddy allocator
    cap,        \* capability spaces and the calls into them
    proc        \* processes, their threads and run queue, and the PID allocator

vars == <<rq, thread, ep, wait, msg, pc, call, recv_log, ipc_log, panicked, mm, pmm, cap, proc>>

(* ---------------------------------------------------------------------- *)
(* Sequence helpers standing for the intrusive list operations of list.h.  *)
(* A list is the sequence of the nodes reachable from its head.            *)
(* ---------------------------------------------------------------------- *)
InSeq(q, x) == \E i \in 1..Len(q) : q[i] = x

FirstIndex(q, x) == CHOOSE i \in 1..Len(q) : q[i] = x /\ \A j \in 1..(i - 1) : q[j] # x

list_del(q, x) ==
    IF InSeq(q, x)
    THEN LET i == FirstIndex(q, x)
         IN SubSeq(q, 1, i - 1) \o SubSeq(q, i + 1, Len(q))
    ELSE q

list_add_tail(q, x) == Append(q, x)

list_empty(q) == q = <<>>

(* The positions <<p, i>> of the lists f[p], p in S *)
Slots(f, S) == UNION {{<<p, i>> : i \in 1..Len(f[p])} : p \in {q \in S : f[q] # <<>>}}

(* The sum of the lengths of the lists f[p], p in S *)
SumLen(f, S) == Cardinality(Slots(f, S))

SetMin(S) == CHOOSE x \in S : \A y \in S : x <= y

(* ---------------------------------------------------------------------- *)
(* Scheduler (kernel/sched/core.c).  K is the pair [rq, th] of the run     *)
(* queue and the thread table; every operator returns the new pair.        *)
(* ---------------------------------------------------------------------- *)
Clamp(prio) == IF prio < 0 THEN 0 ELSE IF prio >= MAX_PRIO THEN MAX_PRIO - 1 ELSE prio

bitmap_set(bitmap, bit) == bitmap \cup {bit}

bitmap_clear(bitmap, bit) == bitmap \ {bit}

(* Variant: the highest set bit instead of the lowest *)
bitmap_fls(bitmap, nbits) ==
    IF bitmap = {} THEN -1 ELSE CHOOSE b \in bitmap : \A c \in bitmap : c <= b

bitmap_ffs(bitmap, nbits) ==
    LET nwords == (nbits + 63) \div 64
        word(i) == {b \in bitmap : b \div 64 = i}
        nonzero == {i \in 0..(nwords - 1) : word(i) # {}}
    IN IF nonzero = {} THEN -1 ELSE SetMin(word(SetMin(nonzero)))

(* rq->queue[MAX_PRIO] is kept for the priorities a thread of the model can *)
(* have: DEFAULT_PRIO, the idle priority and the clamped arguments of      *)
(* sched_set_priority.  The list of any other priority is empty throughout. *)
UsedPrios == {Clamp(p) : p \in PrioArgs \cup {DEFAULT_PRIO, MAX_PRIO - 1}}

QueueAt(r, p) == IF p \in DOMAIN r.queue THEN r.queue[p] ELSE <<>>

(* list_empty(&t->run_list): the node is linked on no priority queue *)
OnRunQueue(K, t) == \E p \in DOMAIN K.rq.queue : InSeq(K.rq.queue[p], t)

RunQueueOf(K, t) == CHOOSE p \in DOMAIN K.rq.queue : InSeq(K.rq.queue[p], t)

sched_add(K, t) ==
    LET prio == Clamp(K.th[t].priority)
    IN [rq |-> [K.rq EXCEPT !.queue[prio] = list_add_tail(@, t),
                            !.bitmap = bitmap_set(@, prio),
                            !.nr_running = @ + 1],
        th |-> [K.th EXCEPT ![t].state = TASK_RUNNING]]

sched_remove(K, t) ==
    IF OnRunQueue(K, t)
    THEN LET q == RunQueueOf(K, t)
             prio == K.th[t].priority
             queue1 == [K.rq.queue EXCEPT ![q] = list_del(@, t)]
         IN [rq |-> [K.rq EXCEPT !.queue = queue1,
                                 !.nr_running = @ - 1,
                                 !.bitmap = IF list_empty(queue1[prio])
                                            THEN bitmap_clear(@, prio) ELSE @],
             th |-> K.th]
    ELSE K

(* Variant: pick_next_thread leaves the bitmap bit of an emptied queue set *)
pick_next_thread_keep_bit(K) ==
    LET prio == bitmap_ffs(K.rq.bitmap, MAX_PRIO)
    IN IF prio < 0 \/ list_empty(K.rq.queue[prio])
       THEN [K |-> K, next |-> Idle]
       ELSE LET next == Head(K.rq.queue[prio])
            IN [K |-> [rq |-> [K.rq EXCEPT !.queue[prio] = list_del(@, next),
                                           !.nr_running = @ - 1],
                       th |-> K.th],
                next |-> next]

(* pick_next_thread: returns [K, next] *)
pick_next_thread(K) ==
    LET prio == bitmap_ffs(K.rq.bitmap, MAX_PRIO)
    IN IF prio < 0 \/ list_empty(K.rq.queue[prio])
       THEN [K |-> K, next |-> Idle]
       ELSE LET next == Head(K.rq.queue[prio])
                queue1 == [K.rq.queue EXCEPT ![prio] = list_del(@, next)]
            IN [K |-> [rq |-> [K.rq EXCEPT !.queue = queue1,
                                           !.nr_running = @ - 1,
                                           !.bitmap = IF list_empty(queue1[prio])
                                                      THEN bitmap_clear(@, prio) ELSE @],
                       th |-> K.th],
                next |-> next]

(* preempt_enable without the nested schedule(): the caller re-enters     *)
(* schedule() when ReschedPending holds afterwards.                        *)
(* Variant: preempt_enable drops the count to zero *)
preempt_enable_reset(K) == [K EXCEPT !.rq.preempt_count = 0]

preempt_enable(K) ==
    [K EXCEPT !.rq.preempt_count = IF @ > 0 THEN @ - 1 ELSE @]

ReschedPending(K) ==
    /\ K.rq.preempt_count = 0
    /\ "TF_NEED_RESCHED" \in K.th[K.rq.curr].flags

(* schedule(): preempt_disable, re-enqueue prev if still runnable, pick,  *)
(* switch_to, and the preempt_enable executed by the thread that resumes   *)
(* inside its own earlier schedule() call.  A thread that runs for the     *)
(* first time starts in kthread_entry and executes no preempt_enable.      *)
schedule(K) ==
    LET prev == K.rq.curr
        K1 == [K EXCEPT !.rq.preempt_count = @ + 1]
        K2 == IF K1.th[prev].state = TASK_RUNNING /\ prev # Idle
              THEN LET prio == K1.th[prev].priority
                   IN [K1 EXCEPT !.rq.queue[prio] = list_add_tail(@, prev),
                                 !.rq.bitmap = bitmap_set(@, prio),
                                 !.rq.nr_running = @ + 1]
              ELSE K1
        pick == pick_next_thread(K2)
        next == pick.next
        K3 == pick.K
        K4 == IF next # prev
              THEN [K3 EXCEPT !.rq.curr = next,
                              !.th[next].flags = @ \ {"TF_NEED_RESCHED"}]
              ELSE K3
    IN IF next # prev /\ K4.th[next].fresh
       THEN [K4 EXCEPT !.th[next].fresh = FALSE]
       ELSE preempt_enable(K4)

(* Variant: an expired time slice is refilled without TF_NEED_RESCHED *)
sched_tick_no_resched(K) ==
    LET curr == K.rq.curr
        K1 == [K EXCEPT !.rq.tick_count = @ + 1]
    IN IF curr = Idle
       THEN IF K1.rq.nr_running > 0
            THEN [K1 EXCEPT !.th[curr].flags = @ \cup {"TF_NEED_RESCHED"}]
            ELSE K1
       ELSE IF K1.th[curr].time_slice > TICK_NS
            THEN [K1 EXCEPT !.th[curr].time_slice = @ - TICK_NS]
            ELSE [K1 EXCEPT !.th[curr].time_slice = DEFAULT_TIME_SLICE]

sched_tick(K) ==
    LET curr == K.rq.curr
        K1 == [K EXCEPT !.rq.tick_count = @ + 1]
    IN IF curr = Idle
       THEN IF K1.rq.nr_running > 0
            THEN [K1 EXCEPT !.th[curr].flags = @ \cup {"TF_NEED_RESCHED"}]
            ELSE K1
       ELSE IF K1.th[curr].time_slice > TICK_NS
            THEN [K1 EXCEPT !.th[curr].time_slice = @ - TICK_NS]
            ELSE [K1 EXCEPT !.th[curr].time_slice = DEFAULT_TIME_SLICE,
                            !.th[curr].flags = @ \cup {"TF_NEED_RESCHED"}]

sched_wakeup(K, t) ==
    IF K.th[t].state = TASK_RUNNING
    THEN K
    ELSE sched_add([K EXCEPT !.th[t].state = TASK_RUNNING,
                             !.th[t].time_slice = DEFAULT_TIME_SLICE], t)

sched_set_priority(K, t, prio0) ==
    LET prio == Clamp(prio0)
    IN IF OnRunQueue(K, t)
       THEN LET q == RunQueueOf(K, t)
                old == K.th[t].priority
                queue1 == [K.rq.queue EXCEPT ![q] = list_del(@, t)]
                bitmap1 == IF list_empty(queue1[old])
                           THEN bitmap_clear(K.rq.bitmap, old) ELSE K.rq.bitmap
            IN [rq |-> [K.rq EXCEPT !.queue = [queue1 EXCEPT ![prio] = list_add_tail(@, t)],
                                    !.bitmap = bitmap_set(bitmap1, prio)],
                th |-> [K.th EXCEPT ![t].priority = prio]]
       ELSE [K EXCEPT !.th[t].priority = prio]

(* Return from an interrupt taken in a thread: the kernel is preemptible, *)
(* so a pending TF_NEED_RESCHED on the interrupted thread reschedules.     *)
(* The idle thread polls the flag itself in its loop.                      *)
irq_return(K) ==
    IF K.rq.curr # Idle /\ "TF_NEED_RESCHED" \in K.th[K.rq.curr].flags
    THEN schedule(K)
    ELSE K

(* thread_wakeup(channel): wake every blocked thread sleeping on channel *)
RECURSIVE WakeAll(_, _)
WakeAll(K, S) ==
    IF S = {} THEN K
    ELSE LET t == SetMin(S)
         IN WakeAll(sched_wakeup(K, t), S \ {t})

thread_wakeup(K, channel) ==
    WakeAll(K, {t \in Threads : /\ K.th[t].wait_channel = channel
                                /\ K.th[t].state \in {TASK_INTERRUPTIBLE, TASK_UNINTERRUPTIBLE}})

(* ---------------------------------------------------------------------- *)
(* IPC (kernel/ipc/message.c, kernel/ipc/endpoint.c)                       *)
(* ---------------------------------------------------------------------- *)
(* 64-bit register values are kept as <<bits 31..16, bits 15..0>>:      *)
(* 0xCAFE0000 + i is <<0xCAFE, i>>.                                        *)
CAFE == 51966
DEAD == 57005
Reg(hi, lo) == <<hi, lo>>

NoCall == [op |-> "none", peer |-> NoThread, result |-> IPC_OK,
           after |-> "start", dret |-> "ret", chan |-> NullChan, opn |-> 0]

EmptyMsg == [tag |-> [label |-> 0, flags |-> {}], regs |-> <<Reg(0, 0), Reg(0, 0)>>]

(* The message the i-th send of the system carries (test.c: label 100+i) *)
SendMsg(i, fl) == [tag |-> [label |-> 100 + i, flags |-> fl],
                   regs |-> <<Reg(CAFE, i), Reg(DEAD, i)>>]

SendIndex(t, n) == (t - 1) * MaxOps + n

(* Labels a receive buffer can hold: 0 (the cleared buffer) or a sent one *)
Labels == {0} \cup {100 + SendIndex(t, n) : t \in Threads, n \in 0..(MaxOps - 1)}

(* What a message carries: its label and its data registers *)
Content(m) == [label |-> m.tag.label, regs |-> m.regs]

(* The message thread t passed to the ipc_send call it is in *)
Passed(t) == Content(SendMsg(SendIndex(t, call[t].opn), {}))

(* Variant: the rendezvous does not copy the message *)
copy_message_none(dst, src) == dst

copy_message(dst, src) == [dst EXCEPT !.tag = src.tag, !.regs = src.regs]

(* Any access to the endpoint's memory; after kfree it is a use after     *)
(* free.  The freed object keeps its last contents in the model.           *)
Touch(e) == IF e.freed > 0 THEN [e EXCEPT !.uaf = TRUE] ELSE e

K0 == [rq |-> rq, th |-> thread]

Running(t) == ~panicked /\ rq.curr = t

(* Return from a call: the return value is kept, the locals of the call  *)
(* die with its stack frame.                                               *)
Return(t, res) == [NoCall EXCEPT !.result = res, !.opn = call[t].opn + 1]

NoWait == [msg |-> NoThread, partner |-> NoThread, operation |-> 0, result |-> IPC_OK]

(* ---------------------------------------------------------------------- *)
(* Virtual memory (kernel/mm/vmm.c, kernel/mm/fault.c, arch paging.c).     *)
(* Addresses are page numbers (address >> PAGE_SHIFT) and sizes are page   *)
(* counts.  An address space is its VMA list, in list order, its counter   *)
(* total_vm and its page                                                   *)
(* table pt, a function from the pages with a present PTE to the frame and *)
(* the flag bits of the PTE.  M is the triple of the address spaces, the   *)
(* set of free page frames and the contents of the frames, one byte each.  *)
(* Page-table pages, slab objects and the pages of the exec stack below    *)
(* USER_STACK_TOP come from memory outside the modelled frames, and the    *)
(* PTEs of the exec stack are not followed.  fs is the order in which      *)
(* get_free_page hands out the free frames; once fs is used up it returns  *)
(* NULL.  The field seen of a PTE is history: the byte the owner of the    *)
(* address space last stored in the page, or found there when the page was *)
(* mapped or inherited by fork.                                            *)
(* ---------------------------------------------------------------------- *)
(* 0x10000000 >> PAGE_SHIFT, where vmm_mmap starts its search *)
MMAP_BASE == 65536

(* Stride of the vmm_mmap search, in pages *)
MMAP_STRIDE == 256

(* Pages a stack may grow by in one fault *)
STACK_GROW_PAGES == 256

(* USER_STACK_TOP >> PAGE_SHIFT, which is 0x7FFFFFFFE, reduced to the 31   *)
(* bits of an integer of the checker: far above every other mapping, as in *)
(* the kernel.  USER_STACK_SIZE / PAGE_SIZE.                               *)
USER_STACK_TOP == 2147483646
USER_STACK_SIZE == 16

Frames == 1..NFrames
AddressSpaces == 1..MaxAs
VAddrs == MMAP_BASE..(MMAP_BASE + NVPages - 1)
Sizes == 0..MaxSize

(* Byte values stored by user code: zero and 0x42 *)
Bytes == {0, 66}

(* VMA flag sets and protections handed to the kernel by its callers *)
VmaFlagArgs == {{"VMA_READ"}, {"VMA_READ", "VMA_WRITE"}, {"VMA_READ", "VMA_WRITE", "VMA_STACK"}}
ProtArgs == {{"VMA_READ"}, {"VMA_READ", "VMA_WRITE"}}

(* Program headers of type PT_LOAD: page of p_vaddr, pages of p_memsz,     *)
(* p_flags and the byte the file holds for the segment                     *)
Phdrs ==
    [vaddr : {MMAP_BASE, MMAP_BASE + 1}, memsz : {1},
     flags : {{"PF_R", "PF_X"}, {"PF_R", "PF_W"}}, byte : {66}]

(* ELF images: a text segment at the base and a second segment *)
ElfImages ==
    {<<p1, p2>> : p1 \in {ph \in Phdrs : ph.vaddr = MMAP_BASE /\ "PF_X" \in ph.flags},
                  p2 \in Phdrs}

(* The image of init: text at the base, data in the page after it *)
InitImage ==
    <<[vaddr |-> MMAP_BASE, memsz |-> 1, flags |-> {"PF_R", "PF_X"}, byte |-> 66],
      [vaddr |-> MMAP_BASE + 1, memsz |-> 1, flags |-> {"PF_R", "PF_W"}, byte |-> 66]>>

(* The orders in which the allocator can hand out the frames of S *)
Orders(S) == {s \in [1..Cardinality(S) -> S] : \A i, j \in DOMAIN s : i # j => s[i] # s[j]}

Min2(x, y) == IF x < y THEN x ELSE y
Max2(x, y) == IF x > y THEN x ELSE y

(* total_vm is a u64 counted in pages; the model keeps the integer it is  *)
(* congruent to, which is negative once the counter has wrapped below zero *)
NoAs == [live |-> FALSE, vma_list |-> <<>>, pt |-> [p \in {} |-> 0], total_vm |-> 0]

(* The PTE flags kept by the u32 field page_prot of struct vm_area: bit 63, *)
(* PTE_NX, does not fit                                                     *)
page_prot_u32(pte_flags) == pte_flags \ {"PTE_NX"}

vma_to_pte_flags(vma_flags) ==
    {"PTE_PRESENT", "PTE_USER"}
        \cup (IF "VMA_WRITE" \in vma_flags THEN {"PTE_WRITABLE"} ELSE {})
        \cup (IF "VMA_EXEC" \notin vma_flags THEN {"PTE_NX"} ELSE {})

(* Index of the VMA found in list l, 0 for NULL *)
vmm_find_vma(l, addr) ==
    LET stop == {i \in 1..Len(l) : (addr >= l[i].start /\ addr < l[i].end) \/ addr < l[i].start}
    IN IF stop = {} THEN 0
       ELSE LET i == SetMin(stop)
            IN IF addr >= l[i].start /\ addr < l[i].end THEN i ELSE 0

vma_find_intersect(l, start, end) ==
    LET stop == {i \in 1..Len(l) : (l[i].start < end /\ l[i].end > start) \/ l[i].start >= end}
    IN IF stop = {} THEN 0
       ELSE LET i == SetMin(stop)
            IN IF l[i].start < end /\ l[i].end > start THEN i ELSE 0

vma_insert(l, new_vma) ==
    LET later == {i \in 1..Len(l) : new_vma.start < l[i].start}
    IN IF later = {} THEN Append(l, new_vma)
       ELSE LET i == SetMin(later)
            IN SubSeq(l, 1, i - 1) \o <<new_vma>> \o SubSeq(l, i, Len(l))

paging_map(pt, virt, phys, flags, byte) ==
    [p \in DOMAIN pt \cup {virt} |->
        IF p = virt
        THEN [phys |-> phys, flags |-> flags \cup {"PTE_PRESENT"}, seen |-> byte]
        ELSE pt[p]]

(* The loop shared by vmm_map_region, handle_stack_growth and load_segment: *)
(* the n pages from first on each get the next frame of fs, filled with     *)
(* byte and mapped with flags                                               *)
RECURSIVE map_pages(_, _, _, _, _, _, _)
map_pages(M, a, first, n, fs, flags, byte) ==
    IF n = 0 THEN M
    ELSE map_pages([M EXCEPT !.as[a].pt = paging_map(@, first, Head(fs), flags, byte),
                             !.free = @ \ {Head(fs)},
                             !.mem[Head(fs)] = byte],
                   a, first + 1, n - 1, Tail(fs), flags, byte)

(* The present pages of [from, to) are unmapped and their frames freed *)
free_range(M, a, from, to) ==
    LET pages == {p \in DOMAIN M.as[a].pt : p >= from /\ p < to}
    IN [M EXCEPT !.as[a].pt = [p \in DOMAIN @ \ pages |-> @[p]],
                 !.free = @ \cup {M.as[a].pt[p].phys : p \in pages}]

RECURSIVE unmap_from(_, _, _, _, _)
unmap_from(M, a, i, start, end) ==
    LET l == M.as[a].vma_list IN
    IF i > Len(l) THEN M
    ELSE LET vma == l[i] IN
         IF vma.start >= end THEN M
         ELSE IF vma.end <= start THEN unmap_from(M, a, i + 1, start, end)
         ELSE LET unmap_start == Max2(vma.start, start)
                  unmap_end == Min2(vma.end, end)
                  M1 == free_range(M, a, unmap_start, unmap_end)
              IN IF unmap_start = vma.start /\ unmap_end = vma.end
                 THEN unmap_from([M1 EXCEPT !.as[a].vma_list =
                                      SubSeq(l, 1, i - 1) \o SubSeq(l, i + 1, Len(l))],
                                 a, i, start, end)
                 ELSE IF unmap_start = vma.start
                 THEN unmap_from([M1 EXCEPT !.as[a].vma_list[i].start = unmap_end],
                                 a, i + 1, start, end)
                 ELSE IF unmap_end = vma.end
                 THEN unmap_from([M1 EXCEPT !.as[a].vma_list[i].end = unmap_start],
                                 a, i + 1, start, end)
                 ELSE unmap_from([M1 EXCEPT !.as[a].vma_list =
                                      SubSeq(l, 1, i - 1)
                                      \o <<[vma EXCEPT !.end = unmap_start],
                                           [vma EXCEPT !.start = unmap_end]>>
                                      \o SubSeq(l, i + 1, Len(l))],
                                 a, i + 2, start, end)

vmm_unmap_region(M, a, start, size) ==
    [unmap_from(M, a, 1, start, start + size) EXCEPT !.as[a].total_vm = @ - size]

vmm_map_region(M, a, start, size, flags, fs) ==
    LET l == M.as[a].vma_list
        end == start + size
    IN IF vma_find_intersect(l, start, end) # 0 THEN [m |-> M, ret |-> -1]
       ELSE LET vma == [start |-> start, end |-> end, flags |-> flags,
                        page_prot |-> page_prot_u32(vma_to_pte_flags(flags))]
                got == Min2(size, Len(fs))
                M1 == map_pages([M EXCEPT !.as[a].vma_list = vma_insert(l, vma)],
                                a, start, got, fs, vma_to_pte_flags(flags), 0)
            IN IF got = size THEN [m |-> [M1 EXCEPT !.as[a].total_vm = @ + size], ret |-> 0]
               ELSE [m |-> vmm_unmap_region(M1, a, start, got), ret |-> -1]

(* The first address MMAP_BASE + k * MMAP_STRIDE at which size pages meet  *)
(* no VMA.  No VMA is longer than a stride, so each blocks one candidate,  *)
(* and the search ends long before USER_SPACE_END.                         *)
mmap_search(l, size) ==
    LET free == {k \in 0..Len(l) :
                    vma_find_intersect(l, MMAP_BASE + k * MMAP_STRIDE,
                                       MMAP_BASE + k * MMAP_STRIDE + size) = 0}
    IN MMAP_BASE + SetMin(free) * MMAP_STRIDE

vmm_mmap(M, a, hint, size, prot, flags, fs) ==
    LET l == M.as[a].vma_list
        addr == IF hint = 0 \/ vma_find_intersect(l, hint, hint + size) # 0
                THEN mmap_search(l, size) ELSE hint
        vma_flags == (prot \cap {"VMA_READ", "VMA_WRITE", "VMA_EXEC"})
                         \cup (flags \cap {"VMA_ANONYMOUS"})
    IN vmm_map_region(M, a, addr, size, vma_flags, fs)

vmm_mprotect(M, a, addr, size, prot) ==
    LET l == M.as[a].vma_list
        end == addr + size
        i == vmm_find_vma(l, addr)
    IN IF i = 0 \/ l[i].start > addr \/ l[i].end < end THEN [m |-> M, ret |-> -1]
       ELSE LET flags == (l[i].flags \ {"VMA_READ", "VMA_WRITE", "VMA_EXEC"}) \cup prot
                new_pte_flags == vma_to_pte_flags(flags)
            IN [m |-> [M EXCEPT !.as[a].vma_list[i].flags = flags,
                                !.as[a].vma_list[i].page_prot = page_prot_u32(new_pte_flags),
                                !.as[a].pt = [p \in DOMAIN @ |->
                                                 IF p >= addr /\ p < end
                                                 THEN [@[p] EXCEPT !.flags = new_pte_flags]
                                                 ELSE @[p]]],
                ret |-> 0]

(* The present pages of address space A that lie inside one of its VMAs *)
VmaPages(A) ==
    {p \in DOMAIN A.pt : \E i \in 1..Len(A.vma_list) :
                             p >= A.vma_list[i].start /\ p < A.vma_list[i].end}

RECURSIVE clone_vmas(_, _, _)
clone_vmas(l, i, dst) ==
    IF i > Len(l) THEN dst ELSE clone_vmas(l, i + 1, vma_insert(dst, l[i]))

vmm_clone_address_space(M, src, dst) ==
    LET S == M.as[src]
        cow(p) == (S.pt[p].flags \ {"PTE_WRITABLE"}) \cup {"PTE_COW"}
    IN [M EXCEPT !.as[src].pt = [p \in DOMAIN S.pt |->
                                    IF p \in VmaPages(S)
                                    THEN [S.pt[p] EXCEPT !.flags = cow(p)] ELSE S.pt[p]],
                 !.as[dst] = [live |-> TRUE,
                              vma_list |-> clone_vmas(S.vma_list, 1, <<>>),
                              pt |-> [p \in VmaPages(S) |->
                                         [phys |-> S.pt[p].phys,
                                          flags |-> cow(p) \cup {"PTE_PRESENT"},
                                          seen |-> M.mem[S.pt[p].phys]]],
                              total_vm |-> S.total_vm]]

(* free_page of a frame that is already free leaves it free *)
vmm_destroy_address_space(M, a) ==
    [M EXCEPT !.as[a] = NoAs,
              !.free = @ \cup {M.as[a].pt[p].phys : p \in VmaPages(M.as[a])}]

handle_cow_fault(M, a, addr, fs) ==
    IF fs = <<>> THEN [m |-> M, ret |-> -1]
    ELSE LET pte == M.as[a].pt[addr]
             new_phys == Head(fs)
         IN [m |-> [M EXCEPT !.free = @ \ {new_phys},
                             !.mem[new_phys] = M.mem[pte.phys],
                             !.as[a].pt[addr] =
                                 [pte EXCEPT !.phys = new_phys,
                                             !.flags = (@ \ {"PTE_COW"}) \cup {"PTE_WRITABLE"}]],
             ret |-> 0]

handle_demand_fault(M, a, addr, vma, fs) ==
    IF fs = <<>> THEN [m |-> M, ret |-> -1]
    ELSE [m |-> map_pages(M, a, addr, 1, fs, vma.page_prot, 0), ret |-> 0]

handle_stack_growth(M, a, addr, i, fs) ==
    LET vma == M.as[a].vma_list[i]
        n == vma.start - addr
        got == Min2(n, Len(fs))
        M1 == map_pages(M, a, addr, got, fs, vma.page_prot, 0)
    IN IF got < n THEN [m |-> M1, ret |-> -1]
       ELSE [m |-> [M1 EXCEPT !.as[a].vma_list[i].start = addr,
                              !.as[a].total_vm = @ + n], ret |-> 0]

vmm_page_fault(M, a, addr, error_code, fs) ==
    LET A == M.as[a]
        l == A.vma_list
        i == vmm_find_vma(l, addr)
        is_present == "PF_PRESENT" \in error_code
        is_write == "PF_WRITE" \in error_code
        cow == addr \in DOMAIN A.pt /\ "PTE_COW" \in A.pt[addr].flags
        stacks == {j \in 1..Len(l) : /\ "VMA_STACK" \in l[j].flags
                                     /\ addr < l[j].start
                                     /\ l[j].start >= STACK_GROW_PAGES
                                     /\ addr >= l[j].start - STACK_GROW_PAGES}
    IN IF i = 0
       THEN IF stacks = {} THEN [m |-> M, ret |-> -1]
            ELSE handle_stack_growth(M, a, addr, SetMin(stacks), fs)
       ELSE IF is_write /\ "VMA_WRITE" \notin l[i].flags
       THEN IF cow THEN handle_cow_fault(M, a, addr, fs) ELSE [m |-> M, ret |-> -1]
       ELSE IF ~is_present THEN handle_demand_fault(M, a, addr, l[i], fs)
       ELSE IF is_write /\ cow THEN handle_cow_fault(M, a, addr, fs)
       ELSE [m |-> M, ret |-> -1]

load_segment(M, a, phdr, fs) ==
    LET flags == {"PTE_PRESENT", "PTE_USER"}
                     \cup (IF "PF_W" \in phdr.flags THEN {"PTE_WRITABLE"} ELSE {})
                     \cup (IF "PF_X" \notin phdr.flags THEN {"PTE_NX"} ELSE {})
        vma_flags == {"VMA_SHARED", "VMA_READ"}
                         \cup (IF "PF_W" \in phdr.flags THEN {"VMA_WRITE"} ELSE {})
                         \cup (IF "PF_X" \in phdr.flags THEN {"VMA_EXEC"} ELSE {})
        got == Min2(phdr.memsz, Len(fs))
        M1 == map_pages(M, a, phdr.vaddr, got, fs, flags, phdr.byte)
        vma == [start |-> phdr.vaddr, end |-> phdr.vaddr + phdr.memsz,
                flags |-> vma_flags, page_prot |-> page_prot_u32(flags)]
    IN IF got < phdr.memsz THEN [m |-> M1, ret |-> -1]
       ELSE [m |-> [M1 EXCEPT !.as[a].vma_list = vma_insert(@, vma)], ret |-> 0]

(* The loop of exec_elf over the program headers, stopped by the first     *)
(* segment that fails to load                                              *)
RECURSIVE load_segments(_, _, _, _, _)
load_segments(M, a, phdrs, i, fs) ==
    IF i > Len(phdrs) THEN [m |-> M, ret |-> 0]
    ELSE LET r == load_segment(M, a, phdrs[i], fs)
         IN IF r.ret < 0 THEN r
            ELSE load_segments(r.m, a, phdrs, i + 1,
                               SubSeq(fs, phdrs[i].memsz + 1, Len(fs)))

(* setup_user_stack: the VMA of the initial stack, the USER_STACK_SIZE      *)
(* pages below USER_STACK_TOP.  VMA_USER of exec.c is the bit of VMA_SHARED. *)
setup_user_stack(M, a) ==
    LET stack_bottom == USER_STACK_TOP - USER_STACK_SIZE
        stack_vma == [start |-> stack_bottom, end |-> USER_STACK_TOP,
                      flags |-> {"VMA_SHARED", "VMA_READ", "VMA_WRITE"},
                      page_prot |-> page_prot_u32({"PTE_PRESENT", "PTE_USER",
                                                   "PTE_WRITABLE", "PTE_NX"})]
    IN [M EXCEPT !.as[a].vma_list = vma_insert(@, stack_vma)]

(* exec_elf: a new address space, loaded with the segments of the image,   *)
(* and its initial stack.  On failure the address space is abandoned with  *)
(* its frames still taken.                                                 *)
exec_elf(M, a, phdrs, fs) ==
    LET r == load_segments([M EXCEPT !.as[a] = [NoAs EXCEPT !.live = TRUE]], a, phdrs, 1, fs)
    IN IF r.ret < 0 THEN [r.m EXCEPT !.as[a] = NoAs] ELSE setup_user_stack(r.m, a)

(* No process yet: every frame is free *)
MmBoot ==
    [as |-> [a \in AddressSpaces |-> NoAs],
     free |-> Frames,
     mem |-> [f \in Frames |-> 0],
     panic |-> FALSE,
     ops |-> 0]

(* exec_init: the first process, loaded while the allocator hands out the  *)
(* frames in ascending order                                               *)
MmInit == exec_elf(MmBoot, 1, InitImage, [i \in 1..NFrames |-> i])

(* ---------------------------------------------------------------------- *)
(* Physical memory manager (kernel/mm/pmm.c, kernel/mm/buddy.c).  P is the *)
(* pair [zone, page]: the struct zone of ZONE_NORMAL and the entries of    *)
(* pmm.page_array that belong to it.  A free list is the sequence of the   *)
(* page frame numbers of its blocks, head first.                           *)
(* ---------------------------------------------------------------------- *)
MAX_ORDER == 11

(* First page frame of ZONE_NORMAL: PHYS_TO_PFN(ZONE_DMA32_END), 4 GiB *)
ZONE_NORMAL_START == 1048576

NoPage == -1

ZonePfns == ZONE_NORMAL_START..(ZONE_NORMAL_START + ZonePages - 1)

AllocOrders == 0..MaxAllocOrder

(* pfn ^ (1UL << order) *)
buddy_pfn(pfn, order) ==
    IF (pfn \div 2^order) % 2 = 0 THEN pfn + 2^order ELSE pfn - 2^order

(* pfn & ~(1UL << order) *)
combined_pfn(pfn, order) ==
    IF (pfn \div 2^order) % 2 = 0 THEN pfn ELSE pfn - 2^order

page_is_buddy(P, buddy, order) ==
    /\ buddy >= P.zone.start_pfn
    /\ buddy < P.zone.end_pfn
    /\ P.page[buddy].buddy
    /\ P.page[buddy].order = order

add_to_free_area(P, pfn, order) ==
    [zone |-> [P.zone EXCEPT !.free_area[order] =
                   [free_list |-> <<pfn>> \o @.free_list, nr_free |-> @.nr_free + 1]],
     page |-> [P.page EXCEPT ![pfn] = [buddy |-> TRUE, order |-> order]]]

(* Variant: the block is counted out and unflagged, and stays linked *)
remove_from_free_area_keep(P, pfn, order) ==
    [zone |-> [P.zone EXCEPT !.free_area[order].nr_free = @ - 1],
     page |-> [P.page EXCEPT ![pfn].buddy = FALSE]]

remove_from_free_area(P, pfn, order) ==
    [zone |-> [P.zone EXCEPT !.free_area[order] =
                   [free_list |-> list_del(@.free_list, pfn), nr_free |-> @.nr_free - 1]],
     page |-> [P.page EXCEPT ![pfn].buddy = FALSE]]

AddFree(P, n) == [P EXCEPT !.zone.free_pages = @ + n]

RECURSIVE expand(_, _, _, _)
expand(P, pfn, low, high) ==
    IF high > low
    THEN expand(AddFree(add_to_free_area(P, pfn + 2^(high - 1), high - 1), 2^(high - 1)),
                pfn, low, high - 1)
    ELSE P

(* The first order >= order whose free list is not empty, or MAX_ORDER *)
FirstFit(P, order) ==
    SetMin({o \in order..(MAX_ORDER - 1) : ~list_empty(P.zone.free_area[o].free_list)}
           \cup {MAX_ORDER})

buddy_alloc_pages(P, order) ==
    LET current_order == FirstFit(P, order) IN
    IF order >= MAX_ORDER \/ current_order = MAX_ORDER
    THEN [P |-> P, page |-> NoPage]
    ELSE LET pfn == Head(P.zone.free_area[current_order].free_list)
             P1 == remove_from_free_area(P, pfn, current_order)
             P2 == IF current_order > order THEN expand(P1, pfn, order, current_order) ELSE P1
         IN [P |-> [P2 EXCEPT !.zone.free_pages = @ - 2^order,
                              !.zone.alloc_count = @ + 1],
             page |-> pfn]

alloc_pages(P, order) ==
    IF P.zone.free_pages < 2^order
    THEN [P |-> P, page |-> NoPage]
    ELSE LET r == buddy_alloc_pages(P, order) IN
         IF r.page = NoPage \/ order = 0 THEN r
         ELSE [r EXCEPT !.P.page[r.page].order = order]

RECURSIVE buddy_coalesce(_, _, _)
buddy_coalesce(P, pfn, order) ==
    IF order < MAX_ORDER - 1 /\ page_is_buddy(P, buddy_pfn(pfn, order), order)
    THEN buddy_coalesce(remove_from_free_area(P, buddy_pfn(pfn, order), order),
                        combined_pfn(pfn, order), order + 1)
    ELSE [P |-> P, pfn |-> pfn, order |-> order]

(* Variant: buddy_free_pages without coalescing *)
buddy_free_pages_no_coalesce(P, pfn, order) ==
    IF order >= MAX_ORDER THEN P
    ELSE LET P1 == add_to_free_area(P, pfn, order)
         IN [P1 EXCEPT !.zone.free_pages = @ + 2^order,
                       !.zone.free_count = @ + 1]

buddy_free_pages(P, pfn, order) ==
    IF order >= MAX_ORDER THEN P
    ELSE LET c == buddy_coalesce(P, pfn, order)
             P1 == add_to_free_area(c.P, c.pfn, c.order)
         IN [P1 EXCEPT !.zone.free_pages = @ + 2^c.order,
                       !.zone.free_count = @ + 1]

free_pages(P, pfn, order) == buddy_free_pages(P, pfn, order)

(* The largest order, at most MAX_ORDER - 1, of a naturally aligned block  *)
(* at pfn that ends at or before end_pfn                                   *)
AddOrder(pfn, end_pfn) ==
    LET fit == {o \in 1..(MAX_ORDER - 1) : pfn % 2^o = 0 /\ pfn + 2^o <= end_pfn}
    IN IF fit = {} THEN 0 ELSE CHOOSE o \in fit : \A q \in fit : q <= o

RECURSIVE buddy_add_pages(_, _, _)
buddy_add_pages(P, pfn, end_pfn) ==
    IF pfn < end_pfn
    THEN LET order == AddOrder(pfn, end_pfn)
         IN buddy_add_pages(AddFree(add_to_free_area(P, pfn, order), 2^order),
                            pfn + 2^order, end_pfn)
    ELSE P

(* init_zones and init_page_array: empty free areas, no page in the buddy *)
init_zones ==
    [zone |-> [start_pfn |-> ZONE_NORMAL_START,
               end_pfn |-> ZONE_NORMAL_START + ZonePages,
               free_area |-> [o \in 0..(MAX_ORDER - 1) |-> [free_list |-> <<>>, nr_free |-> 0]],
               free_pages |-> 0, alloc_count |-> 0, free_count |-> 0],
     page |-> [f \in ZonePfns |-> [buddy |-> FALSE, order |-> 0]]]

(* The statistics of a zone: free_pages and the nr_free of every order *)
ZoneStats(z) ==
    [free_pages |-> z.free_pages,
     nr_free |-> [o \in 0..(MAX_ORDER - 1) |-> z.free_area[o].nr_free]]

(* History of the latest alloc_pages call and of the free_pages call that  *)
(* gave its block back: the statistics before the one and after the other  *)
NoTrip == [phase |-> "none", pfn |-> NoPage, order |-> 0, split |-> FALSE,
           before |-> ZoneStats(init_zones.zone), after |-> ZoneStats(init_zones.zone)]

(* The occupancy bitmap (kernel/mm/bitmap.c) as the set of the page frames *)
(* whose bit is set; mem_bitmap_init sets every bit.                        *)
mem_bitmap_init == ZonePfns

(* bitmap_clear_range(start_pfn, end_pfn - start_pfn) *)
mem_bitmap_mark_usable(bits, start_pfn, end_pfn) == bits \ (start_pfn..(end_pfn - 1))

(* The number of clear bits *)
bitmap_count_free(bits) == Cardinality(ZonePfns \ bits)

(* pmm_init: every page of the zone is usable, marked so in the bitmap and *)
(* handed to the buddy                                                      *)
PmmInit ==
    LET P == buddy_add_pages(init_zones, ZONE_NORMAL_START, ZONE_NORMAL_START + ZonePages)
    IN [zone |-> P.zone, page |-> P.page, held |-> {}, trip |-> NoTrip,
        mapped |-> [a \in AddressSpaces |-> <<>>],
        bits |-> mem_bitmap_mark_usable(mem_bitmap_init, ZONE_NORMAL_START,
                                        ZONE_NORMAL_START + ZonePages)]

(* ---------------------------------------------------------------------- *)
(* Capability spaces (kernel/ipc/capability.c).  S is the function from    *)
(* the capability spaces to their struct cspace; the spaces are numbered   *)
(* in the order of their addresses.  Rights are the set of the bits set.   *)
(* ---------------------------------------------------------------------- *)
(* (u32)-1 as dst_slot: any free slot *)
SLOT_ANY == -1

CSpaces == 1..NCSpaces
CapThreads == 1..NCapThreads
CapSlots == 0..(CSlots - 1)

(* Slot arguments: the slots of a space and one past the last of them *)
SlotArgs == 0..CSlots

CapRights == {"CAP_RIGHT_WRITE", "CAP_RIGHT_GRANT", "CAP_RIGHT_REVOKE"}

(* The rights handed to cap_create_endpoint, with and without Grant and    *)
(* Revoke, and the rights masks handed to cap_mint                         *)
RightsArgs == {CapRights, {"CAP_RIGHT_WRITE", "CAP_RIGHT_GRANT"},
               {"CAP_RIGHT_WRITE", "CAP_RIGHT_REVOKE"}}
MaskArgs == {{"CAP_RIGHT_GRANT"}, {"CAP_RIGHT_WRITE", "CAP_RIGHT_SEND"}}

(* The endpoints capabilities refer to, and the badges of cap_mint *)
CapObjects == {1, 2}
Badges == {7}

(* How a slot was filled (history): by cap_insert, or by cap_copy or       *)
(* cap_mint from a source with the rights and object recorded              *)
NoDer == [op |-> "none", from_op |-> "none", rights |-> {}, object |-> 0, mask |-> {}]

(* A zeroed struct capability.  orig (history) is the rights the chain of  *)
(* derivations started with                                                *)
NoCap ==
    [type |-> "CAP_TYPE_NONE", rights |-> {}, object |-> 0, badge |-> 0,
     generation |-> 0, slot |-> 0, orig |-> {}, der |-> NoDer]

(* cspace_init *)
cspace_init ==
    [lock |-> [next_ticket |-> 0, now_serving |-> 0],
     slots |-> [i \in CapSlots |-> NoCap],
     size |-> CSlots,
     used |-> 0,
     bitmap |-> {},
     generation |-> 1]

cspace_find_free_slot(cs) ==
    IF \E i \in 0..(cs.size - 1) : i \notin cs.bitmap
    THEN SetMin({i \in 0..(cs.size - 1) : i \notin cs.bitmap})
    ELSE -1

cspace_mark_used(cs, slot) == [cs EXCEPT !.bitmap = @ \cup {slot}, !.used = @ + 1]

(* Variant: the bit is cleared, used is left as it was *)
cspace_mark_free_bit(cs, slot) == [cs EXCEPT !.bitmap = @ \ {slot}]

cspace_mark_free(cs, slot) == [cs EXCEPT !.bitmap = @ \ {slot}, !.used = @ - 1]

cap_insert(cs, c) ==
    LET slot == cspace_find_free_slot(cs) IN
    IF slot < 0 THEN [cs |-> cs, ret |-> -1]
    ELSE [cs |-> cspace_mark_used(
                    [cs EXCEPT !.slots[slot] =
                        [c EXCEPT !.slot = slot, !.generation = cs.generation]], slot),
          ret |-> slot]

(* cap_create_endpoint: the capability handed to cap_insert *)
cap_create_endpoint(cs, object, rights) ==
    cap_insert(cs, [NoCap EXCEPT !.type = "CAP_TYPE_ENDPOINT", !.rights = rights,
                                 !.object = object, !.orig = rights,
                                 !.der = [NoDer EXCEPT !.op = "insert"]])

(* cap_lookup: the capability of the slot, or NULL *)
cap_lookup(cs, slot) ==
    IF slot >= cs.size THEN [found |-> FALSE, cap |-> NoCap]
    ELSE IF cs.slots[slot].type # "CAP_TYPE_NONE"
         THEN [found |-> TRUE, cap |-> cs.slots[slot]]
         ELSE [found |-> FALSE, cap |-> NoCap]

cap_delete(cs, slot) ==
    IF slot >= cs.size THEN [cs |-> cs, ret |-> -1]
    ELSE IF cs.slots[slot].type = "CAP_TYPE_NONE" THEN [cs |-> cs, ret |-> -1]
    ELSE [cs |-> cspace_mark_free([cs EXCEPT !.slots[slot] = NoCap], slot), ret |-> 0]

cap_revoke(cs, slot) ==
    IF slot >= cs.size THEN [cs |-> cs, ret |-> -1]
    ELSE IF cs.slots[slot].type = "CAP_TYPE_NONE" THEN [cs |-> cs, ret |-> -1]
    ELSE IF "CAP_RIGHT_REVOKE" \notin cs.slots[slot].rights THEN [cs |-> cs, ret |-> -1]
    ELSE [cs |-> [cs EXCEPT !.generation = @ + 1], ret |-> 0]

(* The destination slot of cap_copy and cap_mint, or -1 *)
actual_dst(cs, dst_slot) ==
    IF dst_slot = SLOT_ANY THEN cspace_find_free_slot(cs)
    ELSE IF dst_slot >= cs.size THEN -1
    ELSE IF cs.slots[dst_slot].type # "CAP_TYPE_NONE" THEN -1
    ELSE dst_slot

(* The variant lets any occupied source slot be copied *)
has_grant_any(c) == TRUE

(* src->slots[src_slot].rights & CAP_RIGHT_GRANT *)
has_grant(c) == "CAP_RIGHT_GRANT" \in c.rights

(* cap_copy, between the locking and the unlocking *)
cap_copy(S, dst, dst_slot, src, src_slot) ==
    IF S[src].slots[src_slot].type = "CAP_TYPE_NONE" THEN [S |-> S, ret |-> -1]
    ELSE IF ~has_grant(S[src].slots[src_slot]) THEN [S |-> S, ret |-> -1]
    ELSE LET a == actual_dst(S[dst], dst_slot)
             from == S[src].slots[src_slot]
         IN IF a < 0 THEN [S |-> S, ret |-> -1]
            ELSE [S |-> [S EXCEPT ![dst] = cspace_mark_used(
                            [@ EXCEPT !.slots[a] =
                                [from EXCEPT !.slot = a, !.generation = S[dst].generation,
                                             !.der = [op |-> "copy", from_op |-> from.der.op,
                                                      rights |-> from.rights,
                                                      object |-> from.object, mask |-> {}]]],
                            a)],
                  ret |-> a]

(* new_rights of the variant: the requested rights are taken as they are *)
allowed_rights_mask(rights, new_rights) == new_rights

(* cap_mint: allowed_rights = src->slots[src_slot].rights & new_rights *)
allowed_rights(rights, new_rights) == rights \cap new_rights

(* cap_mint, between the locking and the unlocking *)
cap_mint(S, dst, dst_slot, src, src_slot, new_rights, badge) ==
    IF S[src].slots[src_slot].type = "CAP_TYPE_NONE" THEN [S |-> S, ret |-> -1]
    ELSE IF ~has_grant(S[src].slots[src_slot]) THEN [S |-> S, ret |-> -1]
    ELSE LET a == actual_dst(S[dst], dst_slot)
             from == S[src].slots[src_slot]
         IN IF a < 0 THEN [S |-> S, ret |-> -1]
            ELSE [S |-> [S EXCEPT ![dst] = cspace_mark_used(
                            [@ EXCEPT !.slots[a] =
                                [from EXCEPT !.slot = a,
                                             !.rights = allowed_rights(from.rights, new_rights),
                                             !.badge = badge,
                                             !.generation = S[dst].generation,
                                             !.der = [op |-> "mint", from_op |-> from.der.op,
                                                      rights |-> from.rights,
                                                      object |-> from.object,
                                                      mask |-> new_rights]]],
                            a)],
                  ret |-> a]

(* The variant takes the lock of the destination first *)
lock_order_dst_first(dst, src) == IF dst # src THEN <<dst, src>> ELSE <<dst>>

(* The locks cap_copy and cap_mint take, in the order they take them *)
lock_order(dst, src) ==
    IF dst < src THEN <<dst, src>>
    ELSE IF dst > src THEN <<src, dst>>
    ELSE <<dst>>

(* The state of a thread's call into the capability system; src_ok,        *)
(* modified and stale are history: whether the source held a capability    *)
(* with Grant, whether the call changed a space, and whether the           *)
(* capability cap_lookup returned is older than the space's generation     *)
NoCapCall ==
    [pc |-> "idle", op |-> "none", dst |-> 1, dst_slot |-> 0, src |-> 1, src_slot |-> 0,
     new_rights |-> {}, badge |-> 0, locks |-> <<>>, ticket |-> 0, result |-> 0,
     src_ok |-> FALSE, modified |-> FALSE, found |-> FALSE, stale |-> FALSE]

(* The capabilities created at boot: an endpoint capability with every    *)
(* right in the first space, one without Grant in the second               *)
BootCaps(c) ==
    IF c = 1 THEN cap_create_endpoint(cspace_init, 1, CapRights).cs
    ELSE IF c = 2
         THEN cap_create_endpoint(cspace_init, 2, {"CAP_RIGHT_WRITE", "CAP_RIGHT_REVOKE"}).cs
         ELSE cspace_init

CapInit ==
    [cs |-> [c \in CSpaces |-> BootCaps(c)],
     call |-> [t \in CapThreads |-> NoCapCall],
     ops |-> 0]

(* A struct process after memset, and the counts of what was freed of it *)
NoProcess ==
    [alloc |-> FALSE, pid |-> NoPid, parent |-> NoProc, children |-> <<>>,
     nr_threads |-> 0, main_thread |-> NoThread, mm |-> FALSE,
     freed |-> [thread |-> 0, stack |-> 0, mm |-> 0, pid |-> 0, proc |-> 0]]

(* After process_init and the creation of the first user process: PID 0   *)
(* is reserved, the process has PID 1, no parent, and its main thread is    *)
(* on the run queue.                                                        *)
ProcInit ==
    [rq |-> [nr_running |-> 1,
             queue |-> [p \in UsedPrios |-> IF p = DEFAULT_PRIO THEN <<1>> ELSE <<>>],
             bitmap |-> {DEFAULT_PRIO},
             curr |-> Idle,
             tick_count |-> 0,
             preempt_count |-> 0],
     th |-> [t \in AllThreads |->
               [state |-> IF t \in {Idle, 1} THEN TASK_RUNNING ELSE TASK_DEAD,
                flags |-> IF t = Idle THEN {"TF_KTHREAD", "TF_IDLE"} ELSE {},
                priority |-> IF t = Idle THEN MAX_PRIO - 1 ELSE DEFAULT_PRIO,
                time_slice |-> IF t = Idle THEN 0 ELSE DEFAULT_TIME_SLICE,
                wait_channel |-> NullChan,
                fresh |-> t # Idle]],
     p |-> [s \in Procs |->
              IF s = 1
              THEN [NoProcess EXCEPT !.alloc = TRUE, !.pid = 1, !.nr_threads = 1,
                                     !.main_thread = 1, !.mm = TRUE]
              ELSE NoProcess],
     pc |-> [s \in Procs |-> IF s = 1 THEN "user" ELSE "none"],
     res |-> [s \in Procs |-> 0],
     bitmap |-> {0, 1},
     next_pid |-> 2,
     last |-> [op |-> "alloc", pid |-> 1, bitmap |-> {0}, next_pid |-> 1]]

Init ==
    /\ rq = [nr_running |-> NThreads,
             queue |-> [p \in UsedPrios |->
                          IF p = DEFAULT_PRIO THEN [i \in 1..NThreads |-> i] ELSE <<>>],
             bitmap |-> {DEFAULT_PRIO},
             curr |-> Idle,
             tick_count |-> 0,
             preempt_count |-> 0]
    /\ thread = [t \in AllThreads |->
                   [state |-> TASK_RUNNING,
                    flags |-> IF t = Idle THEN {"TF_KTHREAD", "TF_IDLE"} ELSE {"TF_KTHREAD"},
                    priority |-> IF t = Idle THEN MAX_PRIO - 1 ELSE DEFAULT_PRIO,
                    time_slice |-> IF t = Idle THEN 0 ELSE DEFAULT_TIME_SLICE,
                    wait_channel |-> NullChan,
                    fresh |-> t # Idle]]
    /\ ep = [flags |-> {}, send_queue |-> <<>>, recv_queue |-> <<>>, refcount |-> 1,
             msgs_sent |-> 0, msgs_received |-> 0, listed |-> TRUE,
             freed |-> 0, uaf |-> FALSE]
    /\ wait = [t \in Threads |-> NoWait]
    /\ msg = [t \in Threads |-> EmptyMsg]
    /\ pc = [t \in Threads |-> "start"]
    /\ call = [t \in Threads |-> NoCall]
    /\ recv_log = [l \in Labels |-> 0]
    /\ ipc_log = [sent |-> <<>>, rcvd |-> <<>>]
    /\ panicked = FALSE
    /\ mm = MmInit
    /\ pmm = PmmInit
    /\ cap = CapInit
    /\ proc = ProcInit

(* endpoint_get(id): look the endpoint up on endpoint_list, take a ref *)
endpoint_get(e) ==
    IF e.listed /\ "EP_FLAG_DEAD" \notin e.flags
    THEN [found |-> TRUE, ep |-> [e EXCEPT !.refcount = @ + 1]]
    ELSE [found |-> FALSE, ep |-> e]

(* ipc_send_fast / ipc_recv_fast up to the call of ipc_send / ipc_recv *)
ipc_fast_enter(t, op, nonblock) ==
    /\ Running(t) /\ pc[t] = "start" /\ call[t].opn < MaxOps /\ Role(t) = op
    /\ LET g == endpoint_get(ep)
           fl == IF nonblock THEN {"MSG_FLAG_NONBLOCK"} ELSE {}
       IN /\ ep' = g.ep
          /\ IF g.found
             THEN /\ pc' = [pc EXCEPT ![t] = IF op = "send" THEN "ipc_send" ELSE "ipc_recv"]
                  /\ call' = [call EXCEPT ![t].op = op]
                  /\ msg' = [msg EXCEPT ![t] =
                               IF op = "send" THEN SendMsg(SendIndex(t, call[t].opn), fl)
                               ELSE [EmptyMsg EXCEPT !.tag.flags = fl]]
             ELSE /\ pc' = pc
                  /\ call' = [call EXCEPT ![t] = Return(t, IPC_ERR_INVALID)]
                  /\ msg' = msg
    /\ UNCHANGED <<proc, cap, mm, pmm, rq, thread, wait, recv_log, ipc_log, panicked>>

ipc_send_fast(t) == \E nonblock \in BOOLEAN : ipc_fast_enter(t, "send", nonblock)

ipc_recv_fast(t) == \E nonblock \in BOOLEAN : ipc_fast_enter(t, "recv", nonblock)

(* find_receiver(ep) / find_sender(ep): the partner of the first wait       *)
(* record of the queue, NULL when the queue is empty                       *)
find_receiver_none(e, W) == NoThread

find_receiver(e, W) ==
    IF list_empty(e.recv_queue) THEN NoThread ELSE W[Head(e.recv_queue)].partner

find_sender(e, W) ==
    IF list_empty(e.send_queue) THEN NoThread ELSE W[Head(e.send_queue)].partner

(* The blocking branch shared by ipc_send and ipc_recv: build the wait    *)
(* record on the caller's stack; the caller then runs thread_sleep(&wait). *)
NewWait(t, operation) ==
    [msg |-> t, partner |-> t, operation |-> operation, result |-> IPC_ERR_NOPARTNER]

(* Variant: the rendezvous leaves the partner's wait record on the queue *)
ipc_dequeue_keep(q, w) == q

(* The rendezvous takes the partner's wait record off the endpoint queue: *)
(* list_del(&send_wait->wait_list) / list_del(&recv_wait->wait_list)       *)
ipc_dequeue(q, w) == list_del(q, w)

(* ipc_send, from spin_lock(&ep->lock) to spin_unlock(&ep->lock) *)
ipc_send(t) ==
    /\ Running(t) /\ pc[t] = "ipc_send"
    /\ LET e == Touch(ep)
       IN IF "EP_FLAG_DEAD" \in e.flags
          THEN /\ ep' = e
               /\ call' = [call EXCEPT ![t].result = IPC_ERR_DEAD]
               /\ pc' = [pc EXCEPT ![t] = "put"]
               /\ UNCHANGED <<proc, cap, mm, pmm, wait, msg>>
          ELSE IF find_receiver(e, wait) # NoThread
          THEN LET w == Head(e.recv_queue)
                   receiver == find_receiver(e, wait)
               IN /\ ep' = [e EXCEPT !.recv_queue = ipc_dequeue(@, w),
                                     !.msgs_sent = @ + 1]
                  /\ msg' = [msg EXCEPT ![wait[w].msg] = copy_message(@, msg[t])]
                  /\ wait' = [wait EXCEPT ![w].result = IPC_OK, ![w].partner = t]
                  /\ call' = [call EXCEPT ![t].result = IPC_OK, ![t].peer = receiver]
                  /\ pc' = [pc EXCEPT ![t] = "wakeup"]
          ELSE IF "MSG_FLAG_NONBLOCK" \in msg[t].tag.flags
          THEN /\ ep' = e
               /\ call' = [call EXCEPT ![t].result = IPC_ERR_NOPARTNER]
               /\ pc' = [pc EXCEPT ![t] = "put"]
               /\ UNCHANGED <<proc, cap, mm, pmm, wait, msg>>
          ELSE /\ ep' = [e EXCEPT !.send_queue = list_add_tail(@, t)]
               /\ wait' = [wait EXCEPT ![t] = NewWait(t, IPC_OP_SEND)]
               /\ call' = [call EXCEPT ![t].after = "ipc_ret", ![t].chan = WaitChan(t)]
               /\ pc' = [pc EXCEPT ![t] = "ts_mark"]
               /\ msg' = msg
    /\ ipc_log' = IF "EP_FLAG_DEAD" \notin ep.flags /\ find_receiver(ep, wait) # NoThread
                  THEN [ipc_log EXCEPT !.sent = Append(@, Passed(t))] ELSE ipc_log
    /\ UNCHANGED <<proc, cap, mm, pmm, rq, thread, recv_log, panicked>>

(* ipc_recv, from spin_lock(&ep->lock) to spin_unlock(&ep->lock) *)
ipc_recv(t) ==
    /\ Running(t) /\ pc[t] = "ipc_recv"
    /\ LET e == Touch(ep)
       IN IF "EP_FLAG_DEAD" \in e.flags
          THEN /\ ep' = e
               /\ call' = [call EXCEPT ![t].result = IPC_ERR_DEAD]
               /\ pc' = [pc EXCEPT ![t] = "put"]
               /\ UNCHANGED <<proc, cap, mm, pmm, wait, msg>>
          ELSE IF find_sender(e, wait) # NoThread
          THEN LET w == Head(e.send_queue)
                   sender == find_sender(e, wait)
               IN /\ ep' = [e EXCEPT !.send_queue = ipc_dequeue(@, w),
                                     !.msgs_received = @ + 1]
                  /\ msg' = [msg EXCEPT ![t] = copy_message(@, msg[wait[w].msg])]
                  /\ wait' = [wait EXCEPT ![w].result = IPC_OK, ![w].partner = t]
                  /\ call' = [call EXCEPT ![t].result = IPC_OK, ![t].peer = sender]
                  /\ pc' = [pc EXCEPT ![t] = "wakeup"]
          ELSE IF "MSG_FLAG_NONBLOCK" \in msg[t].tag.flags
          THEN /\ ep' = e
               /\ call' = [call EXCEPT ![t].result = IPC_ERR_NOPARTNER]
               /\ pc' = [pc EXCEPT ![t] = "put"]
               /\ UNCHANGED <<proc, cap, mm, pmm, wait, msg>>
          ELSE /\ ep' = [e EXCEPT !.recv_queue = list_add_tail(@, t)]
               /\ wait' = [wait EXCEPT ![t] = NewWait(t, IPC_OP_RECV)]
               /\ call' = [call EXCEPT ![t].after = "ipc_ret", ![t].chan = WaitChan(t)]
               /\ pc' = [pc EXCEPT ![t] = "ts_mark"]
               /\ msg' = msg
    /\ ipc_log' = IF "EP_FLAG_DEAD" \notin ep.flags /\ find_sender(ep, wait) # NoThread
                  THEN [ipc_log EXCEPT !.sent = Append(@, Passed(find_sender(ep, wait)))]
                  ELSE ipc_log
    /\ UNCHANGED <<proc, cap, mm, pmm, rq, thread, recv_log, panicked>>

(* sched_wakeup(receiver) / sched_wakeup(sender) after the unlock *)
ipc_wakeup_partner(t) ==
    /\ Running(t) /\ pc[t] = "wakeup"
    /\ LET K == sched_wakeup(K0, call[t].peer)
       IN rq' = K.rq /\ thread' = K.th
    /\ pc' = [pc EXCEPT ![t] = "put"]
    /\ UNCHANGED <<proc, cap, mm, pmm, ep, wait, msg, call, recv_log, ipc_log, panicked>>

(* thread_sleep(channel): t->wait_channel = channel; t->state = ... *)
thread_sleep_mark(t) ==
    /\ Running(t) /\ pc[t] = "ts_mark"
    /\ thread' = [thread EXCEPT ![t].wait_channel = call[t].chan,
                                ![t].state = TASK_INTERRUPTIBLE]
    /\ pc' = [pc EXCEPT ![t] = "ts_remove"]
    /\ UNCHANGED <<proc, cap, mm, pmm, rq, ep, wait, msg, call, recv_log, ipc_log, panicked>>

(* thread_sleep: sched_remove(t) *)
thread_sleep_remove(t) ==
    /\ Running(t) /\ pc[t] = "ts_remove"
    /\ LET K == sched_remove(K0, t)
       IN rq' = K.rq /\ thread' = K.th
    /\ pc' = [pc EXCEPT ![t] = "ts_sched"]
    /\ UNCHANGED <<proc, cap, mm, pmm, ep, wait, msg, call, recv_log, ipc_log, panicked>>

(* A call of schedule() by thread t: from thread_sleep or sched_yield.    *)
(* The caller continues behind the call when it is switched in again; if   *)
(* it was picked again and preempt_enable finds a reschedule pending, it   *)
(* calls schedule() once more.                                             *)
AfterSchedule(p) == IF p = "ts_sched" THEN "ts_clear" ELSE "start"

call_schedule(t) ==
    /\ Running(t) /\ pc[t] \in {"ts_sched", "sy_sched"}
    /\ LET K == schedule(K0)
       IN /\ rq' = K.rq /\ thread' = K.th
          /\ pc' = [pc EXCEPT ![t] = IF K.rq.curr = t /\ ReschedPending(K)
                                     THEN @ ELSE AfterSchedule(@)]
    /\ UNCHANGED <<proc, cap, mm, pmm, ep, wait, msg, call, recv_log, ipc_log, panicked>>

(* thread_sleep: woken up, t->wait_channel = NULL, return to the caller *)
thread_sleep_return(t) ==
    /\ Running(t) /\ pc[t] = "ts_clear"
    /\ thread' = [thread EXCEPT ![t].wait_channel = NullChan]
    /\ pc' = [pc EXCEPT ![t] = call[t].after]
    /\ UNCHANGED <<proc, cap, mm, pmm, rq, ep, wait, msg, call, recv_log, ipc_log, panicked>>

(* ipc_send / ipc_recv: result = wait.result after the sleep *)
ipc_woken(t) ==
    /\ Running(t) /\ pc[t] = "ipc_ret"
    /\ call' = [call EXCEPT ![t].result = wait[t].result]
    /\ pc' = [pc EXCEPT ![t] = "put"]
    /\ UNCHANGED <<proc, cap, mm, pmm, rq, thread, ep, wait, msg, recv_log, ipc_log, panicked>>

(* ipc_call behind its call of ipc_send, which returned send_result to     *)
(* thread t: a failure is passed on; after a success the receive on a      *)
(* reply endpoint is left out (a TODO in the source), the message buffer   *)
(* stays as ipc_send left it and IPC_OK is returned.  received tells       *)
(* whether the call performed a receive; ipc_reply delivers nothing.       *)
ipc_call(t, send_result) ==
    IF send_result # IPC_OK
    THEN [result |-> send_result, msg |-> msg[t], received |-> FALSE]
    ELSE [result |-> IPC_OK, msg |-> msg[t], received |-> FALSE]

(* ipc_send_fast / ipc_recv_fast behind the call: copy the received       *)
(* message out when the result is IPC_OK, then endpoint_put(ep).  When the *)
(* count drops to zero endpoint_put calls endpoint_destroy.                *)
endpoint_put(e) == [e EXCEPT !.refcount = @ - 1]

(* Variant: ipc_recv_fast hands the tag to its caller and not the registers *)
recv_out_tag(m) == [label |-> m.tag.label, regs |-> EmptyMsg.regs]

(* What ipc_recv_fast hands to its caller: *tag and regs[] *)
recv_out(m) == [label |-> m.tag.label, regs |-> m.regs]

ipc_fast_leave(t) ==
    /\ Running(t) /\ pc[t] = "put"
    /\ LET e == endpoint_put(Touch(ep))
           should_free == e.refcount = 0
       IN /\ ep' = e
          /\ recv_log' = IF call[t].op = "recv" /\ call[t].result = IPC_OK
                         THEN [recv_log EXCEPT ![msg[t].tag.label] = @ + 1]
                         ELSE recv_log
          /\ ipc_log' = IF call[t].op = "recv" /\ call[t].result = IPC_OK
                        THEN [ipc_log EXCEPT !.rcvd = Append(@, recv_out(msg[t]))]
                        ELSE ipc_log
          /\ IF should_free
             THEN /\ pc' = [pc EXCEPT ![t] = "d_lock"]
                  /\ call' = [call EXCEPT ![t].dret = "ret"]
                  /\ UNCHANGED <<proc, cap, mm, pmm, wait, msg>>
             ELSE /\ pc' = [pc EXCEPT ![t] = "start"]
                  /\ call' = [call EXCEPT ![t] = Return(t, call[t].result)]
                  /\ wait' = [wait EXCEPT ![t] = NoWait]
                  /\ msg' = [msg EXCEPT ![t] = EmptyMsg]
    /\ UNCHANGED <<proc, cap, mm, pmm, rq, thread, panicked>>

(* sys_endpoint_destroy_impl up to the call of endpoint_destroy *)
sys_endpoint_destroy(t) ==
    /\ Running(t) /\ pc[t] = "start" /\ call[t].opn < MaxOps /\ Role(t) = "destroy"
    /\ LET g == endpoint_get(ep)
       IN /\ ep' = g.ep
          /\ IF g.found
             THEN /\ pc' = [pc EXCEPT ![t] = "d_lock"]
                  /\ call' = [call EXCEPT ![t].op = "destroy", ![t].dret = "put",
                                          ![t].result = IPC_OK]
             ELSE /\ pc' = pc
                  /\ call' = [call EXCEPT ![t] = Return(t, -IPC_ERR_INVALID)]
    /\ UNCHANGED <<proc, cap, mm, pmm, rq, thread, wait, msg, recv_log, ipc_log, panicked>>

(* The two drain loops of endpoint_destroy over one queue: every record   *)
(* gets result IPC_ERR_DEAD and its thread a sched_wakeup.                 *)
RECURSIVE DrainWake(_, _, _)
DrainWake(K, W, q) ==
    IF list_empty(q) THEN [K |-> K, W |-> W]
    ELSE LET w == Head(q)
             W1 == [W EXCEPT ![w].result = IPC_ERR_DEAD]
             K1 == IF W[w].partner # NoThread THEN sched_wakeup(K, W[w].partner) ELSE K
         IN DrainWake(K1, W1, list_del(q, w))

(* endpoint_destroy, from spin_lock(&ep->lock) to spin_unlock(&ep->lock) *)
endpoint_destroy_wake(t) ==
    /\ Running(t) /\ pc[t] = "d_lock"
    /\ LET e == Touch(ep)
           d1 == DrainWake(K0, wait, e.send_queue)
           d2 == DrainWake(d1.K, d1.W, e.recv_queue)
       IN /\ ep' = [e EXCEPT !.flags = @ \cup {"EP_FLAG_DEAD"},
                             !.send_queue = <<>>, !.recv_queue = <<>>]
          /\ wait' = d2.W
          /\ rq' = d2.K.rq /\ thread' = d2.K.th
    /\ pc' = [pc EXCEPT ![t] = "d_unlist"]
    /\ UNCHANGED <<proc, cap, mm, pmm, msg, call, recv_log, ipc_log, panicked>>

(* endpoint_destroy: list_del(&ep->list) under endpoint_list_lock.  A     *)
(* second list_del of the same node dereferences the NULL pointers the     *)
(* first one stored: a fatal kernel fault.                                 *)
endpoint_destroy_unlist(t) ==
    /\ Running(t) /\ pc[t] = "d_unlist"
    /\ LET e == Touch(ep)
       IN IF e.listed
          THEN /\ ep' = [e EXCEPT !.listed = FALSE]
               /\ pc' = [pc EXCEPT ![t] = "d_free"]
               /\ panicked' = panicked
          ELSE /\ ep' = e
               /\ pc' = pc
               /\ panicked' = TRUE
    /\ UNCHANGED <<proc, cap, mm, pmm, rq, thread, wait, msg, call, recv_log, ipc_log>>

(* kfree(ep) -> slab_free: the object goes on the slab freelist, whose     *)
(* link is written over the first word of the object, the fields id and    *)
(* flags.  What the flags word reads afterwards depends on the address of  *)
(* the next free object: either value of the EP_FLAG_DEAD bit can result.  *)
kfree(e, fl) == [e EXCEPT !.freed = @ + 1, !.flags = fl]

(* endpoint_destroy: kfree(ep), then back to the caller *)
endpoint_destroy_free(t) ==
    /\ Running(t) /\ pc[t] = "d_free"
    /\ \E fl \in SUBSET {"EP_FLAG_DEAD"} : ep' = kfree(Touch(ep), fl)
    /\ IF call[t].dret = "put"
       THEN /\ pc' = [pc EXCEPT ![t] = "put"]
            /\ call' = call
       ELSE /\ pc' = [pc EXCEPT ![t] = "start"]
            /\ call' = [call EXCEPT ![t] = Return(t, call[t].result)]
    /\ wait' = [wait EXCEPT ![t] = IF call[t].dret = "put" THEN @ ELSE NoWait]
    /\ msg' = [msg EXCEPT ![t] = IF call[t].dret = "put" THEN @ ELSE EmptyMsg]
    /\ UNCHANGED <<proc, cap, mm, pmm, rq, thread, recv_log, ipc_log, panicked>>

(* sched_yield: current_thread->flags |= TF_NEED_RESCHED; schedule() *)
sched_yield(t) ==
    /\ Running(t) /\ pc[t] = "start" /\ call[t].opn < MaxSchedOps /\ SchedRole(t) \in {"tuner", "waker"}
    /\ thread' = [thread EXCEPT ![t].flags = @ \cup {"TF_NEED_RESCHED"}]
    /\ pc' = [pc EXCEPT ![t] = "sy_sched"]
    /\ call' = [call EXCEPT ![t] = [NoCall EXCEPT !.op = "yield", !.opn = call[t].opn + 1]]
    /\ UNCHANGED <<proc, cap, mm, pmm, rq, ep, wait, msg, recv_log, ipc_log, panicked>>

(* sched_set_priority(target, prio) called by thread t *)
set_priority(t) ==
    /\ Running(t) /\ pc[t] = "start" /\ call[t].opn < MaxSchedOps /\ SchedRole(t) = "tuner"
    /\ \E target \in Threads, prio \in PrioArgs :
          LET K == sched_set_priority(K0, target, prio)
          IN rq' = K.rq /\ thread' = K.th
    /\ call' = [call EXCEPT ![t] = Return(t, 0)]
    /\ UNCHANGED <<proc, cap, mm, pmm, ep, wait, msg, pc, recv_log, ipc_log, panicked>>

(* A thread blocks on a kernel object: thread_sleep(channel) *)
sleep_on(t) ==
    /\ Running(t) /\ pc[t] = "start" /\ call[t].opn < MaxSchedOps /\ SchedRole(t) = "sleeper"
    /\ call' = [call EXCEPT ![t] = [NoCall EXCEPT !.op = "sleep", !.opn = call[t].opn + 1,
                                                  !.chan = SleepChan]]
    /\ pc' = [pc EXCEPT ![t] = "ts_mark"]
    /\ UNCHANGED <<proc, cap, mm, pmm, rq, thread, ep, wait, msg, recv_log, ipc_log, panicked>>

(* A thread wakes the sleepers of the object: thread_wakeup(channel) *)
wake_sleepers(t) ==
    /\ Running(t) /\ pc[t] = "start" /\ call[t].opn < MaxSchedOps /\ SchedRole(t) = "waker"
    /\ LET K == thread_wakeup(K0, SleepChan)
       IN rq' = K.rq /\ thread' = K.th
    /\ call' = [call EXCEPT ![t] = Return(t, 0)]
    /\ UNCHANGED <<proc, cap, mm, pmm, ep, wait, msg, pc, recv_log, ipc_log, panicked>>

(* kthread_entry: the thread function has returned; thread_exit marks    *)
(* the last thread of its process TASK_ZOMBIE (a kernel thread's process   *)
(* has no parent to wake) and schedules away for good.                     *)
kthread_exit(t, nops) ==
    /\ Running(t) /\ pc[t] = "start" /\ call[t].opn >= nops
    /\ LET K == schedule([K0 EXCEPT !.th[t].state = TASK_ZOMBIE,
                                    !.th[t].flags = @ \cup {"TF_EXITING"}])
       IN rq' = K.rq /\ thread' = K.th
    /\ pc' = [pc EXCEPT ![t] = "exited"]
    /\ UNCHANGED <<proc, cap, mm, pmm, ep, wait, msg, call, recv_log, ipc_log, panicked>>

(* The thread function returns after its MaxOps calls (IPC workload) or   *)
(* its MaxSchedOps calls (scheduler workload).                             *)
thread_exit(t) == kthread_exit(t, MaxOps)

sched_thread_exit(t) == kthread_exit(t, MaxSchedOps)

(* PIT interrupt: timer_interrupt_handler -> sched_tick, then the return  *)
(* from the interrupt.  The tick counter is capped.                        *)
timer_tick(nticks) ==
    /\ ~panicked
    /\ rq.tick_count < nticks
    /\ LET K == irq_return(sched_tick(K0))
       IN rq' = K.rq /\ thread' = K.th
    /\ UNCHANGED <<proc, cap, mm, pmm, ep, wait, msg, pc, call, recv_log, ipc_log, panicked>>

timer_interrupt == timer_tick(MaxTicks)

sched_timer_interrupt == timer_tick(MaxSchedTicks)

(* The idle loop of the boot thread: poll TF_NEED_RESCHED, schedule() *)
idle_loop ==
    /\ Running(Idle)
    /\ "TF_NEED_RESCHED" \in thread[Idle].flags
    /\ LET K == schedule([K0 EXCEPT !.th[Idle].flags = @ \ {"TF_NEED_RESCHED"}])
       IN rq' = K.rq /\ thread' = K.th
    /\ UNCHANGED <<proc, cap, mm, pmm, ep, wait, msg, pc, call, recv_log, ipc_log, panicked>>

(* A device interrupt whose handler wakes the sleepers of the object *)
device_interrupt ==
    /\ ~panicked
    /\ LET K == irq_return(thread_wakeup(K0, SleepChan))
       IN rq' = K.rq /\ thread' = K.th
    /\ UNCHANGED <<proc, cap, mm, pmm, ep, wait, msg, pc, call, recv_log, ipc_log, panicked>>

(* Steps of thread_sleep and schedule(), common to every workload *)
SleepStep(t) ==
    \/ thread_sleep_mark(t)
    \/ thread_sleep_remove(t)
    \/ call_schedule(t)
    \/ thread_sleep_return(t)

IpcStep(t) ==
    \/ ipc_send_fast(t)
    \/ ipc_recv_fast(t)
    \/ ipc_send(t)
    \/ ipc_recv(t)
    \/ ipc_wakeup_partner(t)
    \/ ipc_woken(t)
    \/ ipc_fast_leave(t)
    \/ sys_endpoint_destroy(t)
    \/ endpoint_destroy_wake(t)
    \/ endpoint_destroy_unlist(t)
    \/ endpoint_destroy_free(t)
    \/ thread_exit(t)

SchedStep(t) ==
    \/ sched_yield(t)
    \/ set_priority(t)
    \/ sleep_on(t)
    \/ wake_sleepers(t)
    \/ sched_thread_exit(t)

(* IPC workload: receiver, sender and destroyer threads on one endpoint *)
Next ==
    \/ \E t \in Threads : IpcStep(t)
    \/ \E t \in Threads : SleepStep(t)
    \/ timer_interrupt
    \/ idle_loop

Spec == Init /\ [][Next]_vars

(* Scheduler workload: threads yield, change priorities, sleep on an      *)
(* object and wake its sleepers.                                           *)
NextSched ==
    \/ \E t \in Threads : SchedStep(t)
    \/ \E t \in Threads : SleepStep(t)
    \/ sched_timer_interrupt
    \/ idle_loop

SpecSched == Init /\ [][NextSched]_vars

(* The scheduler workload with device interrupts that issue wake-ups *)
NextSchedIrq ==
    \/ NextSched
    \/ device_interrupt

SpecSchedIrq == Init /\ [][NextSchedIrq]_vars

(* ---------------------------------------------------------------------- *)
(* Callers of the page allocator                                           *)
(* ---------------------------------------------------------------------- *)
kvars == <<rq, thread, ep, wait, msg, pc, call, recv_log, ipc_log, panicked>>

(* The frames a free area lists, and the frames linked more than once:    *)
(* list_add of a frame that is still linked leaves its old neighbours     *)
(* pointing to it                                                          *)
Listed(P, order) == {P.zone.free_area[order].free_list[i] :
                        i \in 1..Len(P.zone.free_area[order].free_list)}

RECURSIVE FreeLinks(_, _, _)
FreeLinks(P, pfn, o) ==
    IF o < 0 THEN 0
    ELSE Cardinality({i \in 1..Len(P.zone.free_area[o].free_list) :
                        P.zone.free_area[o].free_list[i] = pfn}) + FreeLinks(P, pfn, o - 1)

(* The free lists are corrupt: what the allocator does with them is not    *)
(* followed further                                                        *)
Relinked(P) == \E pfn \in ZonePfns : FreeLinks(P, pfn, MAX_ORDER - 1) > 1

PmmOps == pmm.zone.alloc_count + pmm.zone.free_count

(* A caller takes a block of 2^order pages: alloc_pages(order, GFP_KERNEL) *)
alloc_pages_call(order) ==
    /\ PmmOps < MaxBuddyOps /\ ~Relinked(pmm)
    /\ LET r == alloc_pages([zone |-> pmm.zone, page |-> pmm.page], order) IN
       /\ r.page # NoPage
       /\ pmm' = [zone |-> r.P.zone, page |-> r.P.page,
                  held |-> pmm.held \cup {<<r.page, order>>},
                  mapped |-> pmm.mapped, bits |-> pmm.bits,
                  trip |-> [phase |-> "allocated", pfn |-> r.page, order |-> order,
                            split |-> FirstFit(pmm, order) > order,
                            before |-> ZoneStats(pmm.zone),
                            after |-> ZoneStats(r.P.zone)]]
    /\ UNCHANGED <<kvars, proc, cap, mm>>

(* A caller gives a block it holds back: free_pages(page, order) *)
free_pages_call(pfn, order) ==
    /\ PmmOps < MaxBuddyOps /\ ~Relinked(pmm)
    /\ <<pfn, order>> \in pmm.held
    /\ LET P == free_pages([zone |-> pmm.zone, page |-> pmm.page], pfn, order) IN
       pmm' = [zone |-> P.zone, page |-> P.page,
               held |-> pmm.held \ {<<pfn, order>>},
               mapped |-> pmm.mapped, bits |-> pmm.bits,
               trip |-> IF pmm.trip.phase = "allocated" /\ pmm.trip.pfn = pfn
                        THEN [pmm.trip EXCEPT !.phase = "freed", !.after = ZoneStats(P.zone)]
                        ELSE NoTrip]
    /\ UNCHANGED <<kvars, proc, cap, mm>>

(* An address space maps a fresh frame: get_free_page and paging_map, as   *)
(* in the page loop of vmm_map_region and in handle_demand_fault           *)
map_frame(a) ==
    /\ PmmOps < MaxBuddyOps /\ ~Relinked(pmm)
    /\ LET r == alloc_pages([zone |-> pmm.zone, page |-> pmm.page], 0) IN
       /\ r.page # NoPage
       /\ pmm' = [pmm EXCEPT !.zone = r.P.zone, !.page = r.P.page,
                             !.mapped[a] = Append(@, r.page), !.trip = NoTrip]
    /\ UNCHANGED <<kvars, proc, cap, mm>>

(* vmm_clone_address_space: the new address space maps every frame the     *)
(* source maps; no reference to the frame is counted                       *)
clone_frames(src, dst) ==
    /\ ~Relinked(pmm)
    /\ src # dst /\ pmm.mapped[src] # <<>> /\ pmm.mapped[dst] = <<>>
    /\ pmm' = [pmm EXCEPT !.mapped[dst] = pmm.mapped[src]]
    /\ UNCHANGED <<kvars, proc, cap, mm>>

(* free_page for every frame of the sequence, first to last *)
RECURSIVE free_frames(_, _)
free_frames(P, frames) ==
    IF frames = <<>> THEN P
    ELSE free_frames(free_pages(P, Head(frames), 0), Tail(frames))

(* vmm_destroy_address_space: free_page for every present page, in the     *)
(* order of the addresses                                                  *)
destroy_frames(a) ==
    /\ PmmOps + Len(pmm.mapped[a]) <= MaxBuddyOps /\ ~Relinked(pmm)
    /\ pmm.mapped[a] # <<>>
    /\ LET P == free_frames([zone |-> pmm.zone, page |-> pmm.page], pmm.mapped[a]) IN
       pmm' = [pmm EXCEPT !.zone = P.zone, !.page = P.page,
                          !.mapped[a] = <<>>, !.trip = NoTrip]
    /\ UNCHANGED <<kvars, proc, cap, mm>>

(* Page allocator workload: kernel callers take blocks of every order and  *)
(* give them back; address spaces map frames, are cloned and destroyed     *)
NextBuddy ==
    \/ \E order \in AllocOrders : alloc_pages_call(order)
    \/ \E pfn \in ZonePfns, order \in AllocOrders : free_pages_call(pfn, order)
    \/ \E a \in AddressSpaces : map_frame(a)
    \/ \E src, dst \in AddressSpaces : clone_frames(src, dst)
    \/ \E a \in AddressSpaces : destroy_frames(a)

SpecBuddy == Init /\ [][NextBuddy]_vars

(* The page allocator under callers that take blocks and give back the     *)
(* blocks they hold, each once                                             *)
NextAlloc ==
    \/ \E order \in AllocOrders : alloc_pages_call(order)
    \/ \E pfn \in ZonePfns, order \in AllocOrders : free_pages_call(pfn, order)

SpecAlloc == Init /\ [][NextAlloc]_vars

(* ---------------------------------------------------------------------- *)
(* Callers of the virtual memory manager: kernel code that maps, unmaps    *)
(* and protects regions of a process, fork, exec, process_reap, and user   *)
(* code that stores to its memory and faults.                              *)
(* ---------------------------------------------------------------------- *)
VmReady == ~mm.panic /\ mm.ops < MaxVmOps

Live(a) == mm.as[a].live

(* What get_free_page returns, call after call, when order is the order   *)
(* in which the allocator prefers the frames                               *)
FreeIn(order) == SelectSeq(order, LAMBDA f : f \in mm.free)

(* One order stands for all those that agree on the free frames: the one  *)
(* that lists the frames in use last, in ascending order                   *)
Canonical(order) ==
    \A i \in 1..(Len(order) - 1) :
        order[i] \notin mm.free => order[i + 1] \notin mm.free /\ order[i] < order[i + 1]

(* The call changed the memory state M of mm into M1 *)
VmDone(M1) ==
    /\ M1 # mm
    /\ mm' = [M1 EXCEPT !.ops = @ + 1]
    /\ UNCHANGED <<kvars, proc, cap, pmm>>

map_region(a, start, size, flags, fs) ==
    /\ VmReady /\ Live(a) /\ Canonical(fs)
    /\ VmDone(vmm_map_region(mm, a, start, size, flags, FreeIn(fs)).m)

unmap_region(a, start, size) ==
    /\ VmReady /\ Live(a)
    /\ VmDone(vmm_unmap_region(mm, a, start, size))

mmap(a, hint, size, prot, fs) ==
    /\ VmReady /\ Live(a) /\ Canonical(fs)
    /\ VmDone(vmm_mmap(mm, a, hint, size, prot, {"VMA_ANONYMOUS"}, FreeIn(fs)).m)

mprotect(a, addr, size, prot) ==
    /\ VmReady /\ Live(a)
    /\ VmDone(vmm_mprotect(mm, a, addr, size, prot).m)

(* process_fork: child->mm = vmm_clone_address_space(parent->mm) *)
process_fork(parent, child) ==
    /\ VmReady /\ Live(parent) /\ ~Live(child)
    /\ VmDone(vmm_clone_address_space(mm, parent, child))

(* process_reap of an exited process: vmm_destroy_address_space(child->mm) *)
process_reap(a) ==
    /\ VmReady /\ Live(a)
    /\ VmDone(vmm_destroy_address_space(mm, a))

exec_elf_call(a, phdrs, fs) ==
    /\ VmReady /\ ~Live(a) /\ Canonical(fs)
    /\ VmDone(exec_elf(mm, a, phdrs, FreeIn(fs)))

(* A user store to a present, writable user page goes to the frame *)
user_store(a, addr, byte) ==
    /\ VmReady /\ Live(a)
    /\ addr \in DOMAIN mm.as[a].pt
    /\ {"PTE_USER", "PTE_WRITABLE"} \subseteq mm.as[a].pt[addr].flags
    /\ VmDone([mm EXCEPT !.mem[mm.as[a].pt[addr].phys] = byte,
                         !.as[a].pt[addr].seen = byte])

(* A user access the MMU refuses: a load or store to a page that is not    *)
(* present, or a store to a present page that is not writable.  The        *)
(* page_fault_handler panics when vmm_page_fault fails.                    *)
page_fault(a, addr, is_write, fs) ==
    /\ VmReady /\ Live(a) /\ Canonical(fs)
    /\ LET present == addr \in DOMAIN mm.as[a].pt
           error_code == {"PF_USER"} \cup (IF present THEN {"PF_PRESENT"} ELSE {})
                                     \cup (IF is_write THEN {"PF_WRITE"} ELSE {})
           r == vmm_page_fault(mm, a, addr, error_code, FreeIn(fs))
       IN /\ IF present THEN is_write /\ "PTE_WRITABLE" \notin mm.as[a].pt[addr].flags
                     ELSE TRUE
          /\ VmDone([r.m EXCEPT !.panic = r.ret < 0])

NextVm ==
    \/ \E a \in AddressSpaces, start \in VAddrs, size \in Sizes, flags \in VmaFlagArgs,
          fs \in Orders(Frames) : map_region(a, start, size, flags, fs)
    \/ \E a \in AddressSpaces, start \in VAddrs, size \in Sizes : unmap_region(a, start, size)
    \/ \E a \in AddressSpaces, hint \in {0} \cup VAddrs, size \in Sizes, prot \in ProtArgs,
          fs \in Orders(Frames) : mmap(a, hint, size, prot, fs)
    \/ \E a \in AddressSpaces, addr \in VAddrs, size \in Sizes, prot \in ProtArgs :
          mprotect(a, addr, size, prot)
    \/ \E parent, child \in AddressSpaces : process_fork(parent, child)
    \/ \E a \in AddressSpaces : process_reap(a)
    \/ \E a \in AddressSpaces, phdrs \in ElfImages, fs \in Orders(Frames) :
          exec_elf_call(a, phdrs, fs)
    \/ \E a \in AddressSpaces, addr \in VAddrs, byte \in Bytes : user_store(a, addr, byte)
    \/ \E a \in AddressSpaces, addr \in VAddrs, is_write \in BOOLEAN, fs \in Orders(Frames) :
          page_fault(a, addr, is_write, fs)

SpecVm == Init /\ [][NextVm]_vars

(* ---------------------------------------------------------------------- *)
(* Threads calling into the capability system.  A call that takes one lock *)
(* is one step, taken when the lock is free; cap_copy and cap_mint take    *)
(* their locks one at a time: a ticket, then the wait for it to be served. *)
(* ---------------------------------------------------------------------- *)
CapIdle(t) == cap.call[t].pc = "idle" /\ cap.ops < MaxCapOps

LockFree(c) == cap.cs[c].lock.next_ticket = cap.cs[c].lock.now_serving

(* spin_lock followed by spin_unlock *)
LockUnlock(cs) ==
    [cs EXCEPT !.lock = [next_ticket |-> @.next_ticket + 1, now_serving |-> @.now_serving + 1]]

spin_unlock(cs) == [cs EXCEPT !.lock.now_serving = @ + 1]

(* The call of thread t returns *)
CapReturn(op, result) ==
    [NoCapCall EXCEPT !.op = op, !.result = result]

cap_create_endpoint_call(t, c, object, rights) ==
    /\ CapIdle(t) /\ LockFree(c)
    /\ LET r == cap_create_endpoint(cap.cs[c], object, rights) IN
       cap' = [cap EXCEPT !.cs[c] = LockUnlock(r.cs),
                          !.call[t] = CapReturn("insert", r.ret),
                          !.ops = @ + 1]
    /\ UNCHANGED <<kvars, proc, mm, pmm>>

cap_delete_call(t, c, slot) ==
    /\ CapIdle(t) /\ LockFree(c)
    /\ LET r == cap_delete(cap.cs[c], slot) IN
       cap' = [cap EXCEPT !.cs[c] = IF slot >= cap.cs[c].size THEN @ ELSE LockUnlock(r.cs),
                          !.call[t] = CapReturn("delete", r.ret),
                          !.ops = @ + 1]
    /\ UNCHANGED <<kvars, proc, mm, pmm>>

cap_revoke_call(t, c, slot) ==
    /\ CapIdle(t) /\ LockFree(c)
    /\ LET r == cap_revoke(cap.cs[c], slot) IN
       cap' = [cap EXCEPT !.cs[c] = IF slot >= cap.cs[c].size THEN @ ELSE LockUnlock(r.cs),
                          !.call[t] = CapReturn("revoke", r.ret),
                          !.ops = @ + 1]
    /\ UNCHANGED <<kvars, proc, mm, pmm>>

cap_lookup_call(t, c, slot) ==
    /\ CapIdle(t) /\ LockFree(c)
    /\ LET r == cap_lookup(cap.cs[c], slot) IN
       cap' = [cap EXCEPT !.cs[c] = IF slot >= cap.cs[c].size THEN @ ELSE LockUnlock(@),
                          !.call[t] = [CapReturn("lookup", 0) EXCEPT
                                          !.src = c, !.src_slot = slot,
                                          !.found = r.found,
                                          !.stale = r.found /\
                                                    r.cap.generation < cap.cs[c].generation],
                          !.ops = @ + 1]
    /\ UNCHANGED <<kvars, proc, mm, pmm>>

(* cap_copy and cap_mint up to the locking: the call of thread t *)
cap_enter(op, dst, dst_slot, src, src_slot, new_rights, badge) ==
    IF src_slot >= cap.cs[src].size
    THEN [CapReturn(op, -1) EXCEPT !.src = src, !.src_slot = src_slot]
    ELSE [NoCapCall EXCEPT !.pc = "lock", !.op = op,
                           !.dst = dst, !.dst_slot = dst_slot,
                           !.src = src, !.src_slot = src_slot,
                           !.new_rights = new_rights, !.badge = badge,
                           !.locks = lock_order(dst, src)]

cap_copy_call(t, dst, dst_slot, src, src_slot) ==
    /\ CapIdle(t)
    /\ cap' = [cap EXCEPT !.call[t] = cap_enter("copy", dst, dst_slot, src, src_slot, {}, 0),
                          !.ops = @ + 1]
    /\ UNCHANGED <<kvars, proc, mm, pmm>>

cap_mint_call(t, dst, dst_slot, src, src_slot, new_rights, badge) ==
    /\ CapIdle(t)
    /\ cap' = [cap EXCEPT !.call[t] = cap_enter("mint", dst, dst_slot, src, src_slot,
                                                new_rights, badge),
                          !.ops = @ + 1]
    /\ UNCHANGED <<kvars, proc, mm, pmm>>

(* spin_lock: __atomic_fetch_add(&lock->next_ticket, 1) *)
spin_lock_ticket(t) ==
    /\ cap.call[t].pc = "lock"
    /\ LET c == Head(cap.call[t].locks) IN
       cap' = [cap EXCEPT !.cs[c].lock.next_ticket = @ + 1,
                          !.call[t].ticket = cap.cs[c].lock.next_ticket,
                          !.call[t].pc = "spin"]
    /\ UNCHANGED <<kvars, proc, mm, pmm>>

(* spin_lock: the loop ends when now_serving is the ticket *)
spin_lock_served(t) ==
    /\ cap.call[t].pc = "spin"
    /\ cap.cs[Head(cap.call[t].locks)].lock.now_serving = cap.call[t].ticket
    /\ cap' = [cap EXCEPT !.call[t].locks = Tail(@),
                          !.call[t].pc = IF Tail(cap.call[t].locks) = <<>>
                                         THEN "body" ELSE "lock"]
    /\ UNCHANGED <<kvars, proc, mm, pmm>>

(* cap_copy and cap_mint with the locks held, to the return *)
cap_transfer(t) ==
    /\ cap.call[t].pc = "body"
    /\ LET k == cap.call[t]
           r == IF k.op = "copy"
                THEN cap_copy(cap.cs, k.dst, k.dst_slot, k.src, k.src_slot)
                ELSE cap_mint(cap.cs, k.dst, k.dst_slot, k.src, k.src_slot,
                              k.new_rights, k.badge)
           from == cap.cs[k.src].slots[k.src_slot]
       IN cap' = [cap EXCEPT
                    !.cs = [c \in CSpaces |->
                              IF c \in {k.src, k.dst} THEN spin_unlock(r.S[c]) ELSE r.S[c]],
                    !.call[t] = [CapReturn(k.op, r.ret) EXCEPT
                                   !.src = k.src, !.src_slot = k.src_slot,
                                   !.src_ok = from.type # "CAP_TYPE_NONE" /\
                                              "CAP_RIGHT_GRANT" \in from.rights,
                                   !.modified = \E c \in {k.src, k.dst} :
                                                   \/ r.S[c].slots # cap.cs[c].slots
                                                   \/ r.S[c].bitmap # cap.cs[c].bitmap
                                                   \/ r.S[c].used # cap.cs[c].used]]
    /\ UNCHANGED <<kvars, proc, mm, pmm>>

(* Capability workload: threads create, delete, revoke, look up, copy and  *)
(* mint capabilities in and between the spaces                             *)
NextCap ==
    \/ \E t \in CapThreads, c \in CSpaces, object \in CapObjects, rights \in RightsArgs :
          cap_create_endpoint_call(t, c, object, rights)
    \/ \E t \in CapThreads, c \in CSpaces, slot \in SlotArgs : cap_delete_call(t, c, slot)
    \/ \E t \in CapThreads, c \in CSpaces, slot \in SlotArgs : cap_revoke_call(t, c, slot)
    \/ \E t \in CapThreads, c \in CSpaces, slot \in SlotArgs : cap_lookup_call(t, c, slot)
    \/ \E t \in CapThreads, dst \in CSpaces, dst_slot \in {SLOT_ANY} \cup SlotArgs,
          src \in CSpaces, src_slot \in SlotArgs :
          cap_copy_call(t, dst, dst_slot, src, src_slot)
    \/ \E t \in CapThreads, dst \in CSpaces, dst_slot \in {SLOT_ANY} \cup SlotArgs,
          src \in CSpaces, src_slot \in SlotArgs, new_rights \in MaskArgs, badge \in Badges :
          cap_mint_call(t, dst, dst_slot, src, src_slot, new_rights, badge)
    \/ \E t \in CapThreads : spin_lock_ticket(t)
    \/ \E t \in CapThreads : spin_lock_served(t)
    \/ \E t \in CapThreads : cap_transfer(t)

SpecCap == Init /\ [][NextCap]_vars

(* ---------------------------------------------------------------------- *)
(* Processes (kernel/proc/process.c).  Every process has one thread, its   *)
(* main thread; process slot s and its thread share the index s.  A slot   *)
(* stands for the kmalloc'ed struct process and is not handed out again.   *)
(* ---------------------------------------------------------------------- *)
PK == [rq |-> proc.rq, th |-> proc.th]

ProcRunning(t) == proc.rq.curr = t

(* pid_bitmap and next_pid are the fields bitmap and next_pid of B *)

(* Variant: alloc_pid without the second scan from PID 1 *)
alloc_pid_no_wrap(B) ==
    LET first == {i \in B.next_pid..(PID_MAX - 1) : i \notin B.bitmap}
    IN IF first # {}
       THEN LET i == SetMin(first)
            IN [pid |-> i, bitmap |-> bitmap_set(B.bitmap, i),
                next_pid |-> IF i + 1 >= PID_MAX THEN 1 ELSE i + 1]
       ELSE [pid |-> -1, bitmap |-> B.bitmap, next_pid |-> B.next_pid]

alloc_pid(B) ==
    LET first == {i \in B.next_pid..(PID_MAX - 1) : i \notin B.bitmap}
        second == {i \in 1..(B.next_pid - 1) : i \notin B.bitmap}
    IN IF first # {}
       THEN LET i == SetMin(first)
            IN [pid |-> i, bitmap |-> bitmap_set(B.bitmap, i),
                next_pid |-> IF i + 1 >= PID_MAX THEN 1 ELSE i + 1]
       ELSE IF second # {}
            THEN LET i == SetMin(second)
                 IN [pid |-> i, bitmap |-> bitmap_set(B.bitmap, i), next_pid |-> i + 1]
            ELSE [pid |-> -1, bitmap |-> B.bitmap, next_pid |-> B.next_pid]

free_pid(B, pid) ==
    IF pid <= 0 \/ pid >= PID_MAX
    THEN B
    ELSE [B EXCEPT !.bitmap = bitmap_clear(@, pid)]

(* The calls as they change the process state R: the allocator state and  *)
(* a record of the last call, last.bitmap and last.next_pid being the      *)
(* values found by the call.                                               *)
pid_alloc(R) ==
    LET r == alloc_pid(R)
    IN [R EXCEPT !.bitmap = r.bitmap, !.next_pid = r.next_pid,
                 !.last = [op |-> "alloc", pid |-> r.pid,
                           bitmap |-> R.bitmap, next_pid |-> R.next_pid]]

pid_free(R, pid) ==
    LET r == free_pid(R, pid)
    IN [R EXCEPT !.bitmap = r.bitmap,
                 !.last = [op |-> "free", pid |-> pid,
                           bitmap |-> R.bitmap, next_pid |-> R.next_pid]]

(* kmalloc(sizeof(struct process)): the lowest slot never handed out *)
FreeSlots(R) == {s \in Procs : R.p[s].pid = NoPid /\ ~R.p[s].alloc /\ R.p[s].freed.proc = 0}

(* process_create: kmalloc, memset, alloc_pid; NoProc when out of PIDs *)
process_create(R) ==
    LET s == SetMin(FreeSlots(R))
        R1 == pid_alloc(R)
    IN IF R1.last.pid < 0
       THEN [R |-> R1, proc |-> NoProc]
       ELSE [R |-> [R1 EXCEPT !.p[s] = [NoProcess EXCEPT !.alloc = TRUE, !.pid = R1.last.pid]],
             proc |-> s]

(* process_reap(child): free the main thread and its kernel stack, the   *)
(* address space, the PID and the process itself                           *)
reap(R, child) ==
    LET c == R.p[child]
        R1 == IF c.main_thread # NoThread
              THEN [R EXCEPT !.p[child].main_thread = NoThread,
                             !.p[child].freed.stack = @ + 1,
                             !.p[child].freed.thread = @ + 1]
              ELSE R
        R2 == IF c.mm
              THEN [R1 EXCEPT !.p[child].mm = FALSE, !.p[child].freed.mm = @ + 1]
              ELSE R1
        R3 == pid_free(R2, c.pid)
    IN [R3 EXCEPT !.p[child].alloc = FALSE,
                  !.p[child].freed.pid = @ + 1,
                  !.p[child].freed.proc = @ + 1]

(* process_fork of the process of thread t; fail names the allocation    *)
(* that fails: the address space, the thread, its kernel stack, or none.   *)
fork(R, t, fail) ==
    LET made == process_create(R)
        child == made.proc
        R1 == [made.R EXCEPT !.p[child].parent = t,
                             !.p[t].children = list_add_tail(@, child)]
        unlinked == [R1 EXCEPT !.p[t].children = list_del(@, child)]
        R2 == [R1 EXCEPT !.p[child].mm = R.p[t].mm]
        unlinked2 == [R2 EXCEPT !.p[t].children = list_del(@, child)]
        R3 == [R2 EXCEPT !.p[child].main_thread = child,
                         !.p[child].nr_threads = @ + 1,
                         !.th[child] = [R.th[t] EXCEPT !.time_slice = DEFAULT_TIME_SLICE,
                                                       !.fresh = TRUE],
                         !.pc[child] = "user",
                         !.res[child] = 0]
        K == sched_add([rq |-> R3.rq, th |-> R3.th], child)
    IN IF child = NoProc
       THEN [made.R EXCEPT !.res[t] = -1]
       ELSE IF fail = "mm" /\ R.p[t].mm
            THEN [reap(unlinked, child) EXCEPT !.res[t] = -1]
            ELSE IF fail \in {"thread", "stack"}
                 THEN [reap(unlinked2, child) EXCEPT !.res[t] = -1]
                 ELSE [R3 EXCEPT !.rq = K.rq, !.th = K.th, !.res[t] = R3.p[child].pid]

(* SYS_FORK *)
sys_fork(t, fail) ==
    /\ ProcRunning(t) /\ proc.pc[t] = "user"
    /\ FreeSlots(proc) # {}
    /\ proc' = fork(proc, t, fail)
    /\ UNCHANGED <<kvars, cap, mm, pmm>>

(* process_exit: the children move to init_process if there is one *)
RECURSIVE reparent(_, _)
reparent(R, s) ==
    IF list_empty(R.p[s].children)
    THEN R
    ELSE LET child == Head(R.p[s].children)
         IN reparent([R EXCEPT !.p[s].children = list_del(@, child),
                               !.p[child].parent = init_process,
                               !.p[init_process].children = list_add_tail(@, child)], s)

(* SYS_EXIT: process_exit, then thread_exit as far as t->state: the       *)
(* thread leaves its process, and the last one becomes a zombie.           *)
sys_exit(t) ==
    /\ ProcRunning(t) /\ proc.pc[t] = "user"
    /\ LET R1 == IF init_process # NoProc /\ init_process # t
                 THEN reparent(proc, t) ELSE proc
           R2 == [R1 EXCEPT !.th[t].flags = @ \cup {"TF_EXITING"},
                            !.p[t].nr_threads = @ - 1]
       IN proc' = IF R2.p[t].nr_threads = 0
                  THEN [R2 EXCEPT !.th[t].state = TASK_ZOMBIE, !.pc[t] = "te_wake"]
                  ELSE [R2 EXCEPT !.th[t].state = TASK_DEAD, !.pc[t] = "te_sched"]
    /\ UNCHANGED <<kvars, cap, mm, pmm>>

(* thread_exit: thread_wakeup(parent) if the process has a parent *)
thread_exit_wake(t) ==
    /\ ProcRunning(t) /\ proc.pc[t] = "te_wake"
    /\ LET parent == proc.p[t].parent
           K == IF parent # NoProc THEN thread_wakeup(PK, ProcChan(parent)) ELSE PK
       IN proc' = [proc EXCEPT !.rq = K.rq, !.th = K.th, !.pc[t] = "te_sched"]
    /\ UNCHANGED <<kvars, cap, mm, pmm>>

(* SYS_WAIT *)
sys_wait(t) ==
    /\ ProcRunning(t) /\ proc.pc[t] = "user"
    /\ proc' = [proc EXCEPT !.pc[t] = "pw_scan"]
    /\ UNCHANGED <<kvars, cap, mm, pmm>>

(* Variant: the first child on the list, whatever its state *)
zombie_child_any(R, t) ==
    IF list_empty(R.p[t].children) THEN NoProc ELSE Head(R.p[t].children)

(* The first child on the list whose main thread is a zombie, or NoProc *)
zombie_child(R, t) ==
    LET l == R.p[t].children
        z == {i \in 1..Len(l) : /\ R.p[l[i]].main_thread # NoThread
                                /\ R.th[R.p[l[i]].main_thread].state = TASK_ZOMBIE}
    IN IF z = {} THEN NoProc ELSE l[SetMin(z)]

(* process_wait from retry: to the return, or to the call of thread_sleep *)
process_wait(t) ==
    /\ ProcRunning(t) /\ proc.pc[t] = "pw_scan"
    /\ LET child == zombie_child(proc, t)
       IN proc' = IF list_empty(proc.p[t].children)
                  THEN [proc EXCEPT !.res[t] = -1, !.pc[t] = "user"]
                  ELSE IF child # NoProc
                       THEN [reap([proc EXCEPT !.p[t].children = list_del(@, child)], child)
                               EXCEPT !.res[t] = proc.p[child].pid, !.pc[t] = "user"]
                       ELSE [proc EXCEPT !.pc[t] = "pw_mark"]
    /\ UNCHANGED <<kvars, cap, mm, pmm>>

(* thread_sleep(proc): t->wait_channel = channel; t->state = ... *)
wait_sleep_mark(t) ==
    /\ ProcRunning(t) /\ proc.pc[t] = "pw_mark"
    /\ proc' = [proc EXCEPT !.th[t].wait_channel = ProcChan(t),
                            !.th[t].state = TASK_INTERRUPTIBLE,
                            !.pc[t] = "pw_remove"]
    /\ UNCHANGED <<kvars, cap, mm, pmm>>

(* thread_sleep: sched_remove(t) *)
wait_sleep_remove(t) ==
    /\ ProcRunning(t) /\ proc.pc[t] = "pw_remove"
    /\ LET K == sched_remove(PK, t)
       IN proc' = [proc EXCEPT !.rq = K.rq, !.th = K.th, !.pc[t] = "pw_sched"]
    /\ UNCHANGED <<kvars, cap, mm, pmm>>

(* schedule() called by thread_sleep or thread_exit *)
proc_schedule(t) ==
    /\ ProcRunning(t) /\ proc.pc[t] \in {"pw_sched", "te_sched"}
    /\ LET K == schedule(PK)
       IN proc' = [proc EXCEPT !.rq = K.rq, !.th = K.th,
                               !.pc[t] = IF K.rq.curr = t /\ ReschedPending(K) THEN @
                                         ELSE IF @ = "pw_sched" THEN "pw_clear" ELSE "exited"]
    /\ UNCHANGED <<kvars, cap, mm, pmm>>

(* thread_sleep: woken up, t->wait_channel = NULL; process_wait: goto retry *)
wait_sleep_return(t) ==
    /\ ProcRunning(t) /\ proc.pc[t] = "pw_clear"
    /\ proc' = [proc EXCEPT !.th[t].wait_channel = NullChan, !.pc[t] = "pw_scan"]
    /\ UNCHANGED <<kvars, cap, mm, pmm>>

(* PIT interrupt while a process workload runs *)
proc_timer_interrupt ==
    /\ proc.rq.tick_count < MaxProcTicks
    /\ LET K == irq_return(sched_tick(PK))
       IN proc' = [proc EXCEPT !.rq = K.rq, !.th = K.th]
    /\ UNCHANGED <<kvars, cap, mm, pmm>>

(* The idle loop of the boot thread *)
proc_idle_loop ==
    /\ ProcRunning(Idle)
    /\ "TF_NEED_RESCHED" \in proc.th[Idle].flags
    /\ LET K == schedule([PK EXCEPT !.th[Idle].flags = @ \ {"TF_NEED_RESCHED"}])
       IN proc' = [proc EXCEPT !.rq = K.rq, !.th = K.th]
    /\ UNCHANGED <<kvars, cap, mm, pmm>>

ForkFailures == {"none", "mm", "thread", "stack"}

(* Process workload: user processes fork, wait for children and exit *)
NextProc ==
    \/ \E t \in Procs, fail \in ForkFailures : sys_fork(t, fail)
    \/ \E t \in Procs : sys_exit(t)
    \/ \E t \in Procs : thread_exit_wake(t)
    \/ \E t \in Procs : sys_wait(t)
    \/ \E t \in Procs : process_wait(t)
    \/ \E t \in Procs : wait_sleep_mark(t)
    \/ \E t \in Procs : wait_sleep_remove(t)
    \/ \E t \in Procs : proc_schedule(t)
    \/ \E t \in Procs : wait_sleep_return(t)
    \/ proc_timer_interrupt
    \/ proc_idle_loop

SpecProc == Init /\ [][NextProc]_vars

(* PID allocator workload: processes are created and reaped in any order *)
alloc_pid_call ==
    /\ proc' = pid_alloc(proc)
    /\ UNCHANGED <<kvars, cap, mm, pmm>>

free_pid_call(pid) ==
    /\ proc' = pid_free(proc, pid)
    /\ UNCHANGED <<kvars, cap, mm, pmm>>

NextPid ==
    \/ alloc_pid_call
    \/ \E pid \in PidArgs : free_pid_call(pid)

SpecPid == Init /\ [][NextPid]_vars

TypeOK ==
    /\ rq.curr \in AllThreads
    /\ rq.nr_running \in Int
    /\ \A t \in Threads : pc[t] \in {"start", "ipc_send", "ipc_recv", "wakeup", "ts_mark",
                                     "ts_remove", "ts_sched", "ts_clear", "ipc_ret", "put",
                                     "d_lock", "d_unlist", "d_free", "sy_sched", "exited"}

(* ---------------------------------------------------------------------- *)
(* Properties                                                              *)
(* ---------------------------------------------------------------------- *)
(* Thread t has switched away inside thread_sleep and is not runnable *)
Asleep(t) ==
    /\ pc[t] = "ts_clear"
    /\ rq.curr # t
    /\ thread[t].state = TASK_INTERRUPTIBLE
    /\ ~OnRunQueue(K0, t)

Queued(t) == InSeq(ep.send_queue, t) \/ InSeq(ep.recv_queue, t)

(* Some thread is between the rendezvous and its sched_wakeup(t) *)
WakeupPending(t) == \E u \in Threads : pc[u] = "wakeup" /\ call[u].peer = t

C2_AtMostOnce == \A l \in Labels \ {0} : recv_log[l] <= 1

(* C2 witness: two different messages have each been received, and the    *)
(* endpoint has been destroyed as well.                                    *)
C2_Witness ==
    /\ \E l1, l2 \in Labels \ {0} : l1 # l2 /\ recv_log[l1] = 1 /\ recv_log[l2] = 1
    /\ ep.freed > 0

C4_NoUseAfterFree == ~ep.uaf

(* C5: the bitmap bit of priority p is set iff queue p is non-empty, and  *)
(* nr_running is the sum of the lengths of all priority queues.            *)
C5_RunQueueInvariant ==
    /\ \A p \in 0..(MAX_PRIO - 1) : (p \in rq.bitmap) <=> ~list_empty(QueueAt(rq, p))
    /\ rq.nr_running = SumLen(rq.queue, DOMAIN rq.queue)

(* C5 witness: a thread sleeps off the run queue while another one waits  *)
(* on the queue of a priority it was moved to by sched_set_priority.       *)
C5_Witness ==
    /\ \E t \in Threads : Asleep(t)
    /\ \E p \in rq.bitmap : p # DEFAULT_PRIO /\ ~list_empty(rq.queue[p])

(* Number of links of thread t on the priority queues *)
Links(t) == Cardinality({s \in Slots(rq.queue, DOMAIN rq.queue) : rq.queue[s[1]][s[2]] = t})

VmasAt(a, p) ==
    {i \in 1..Len(mm.as[a].vma_list) :
        p >= mm.as[a].vma_list[i].start /\ p < mm.as[a].vma_list[i].end}

(* C7: parent and child see identical memory right after fork, and a later *)
(* write to a page by one of them is not visible to the other: at every    *)
(* mapped page of a VMA each process reads the byte it last stored there   *)
(* itself, or the byte the page held when it was mapped or inherited.      *)
C7_ForkIsolation ==
    \A a \in AddressSpaces : \A p \in DOMAIN mm.as[a].pt :
        mm.as[a].live /\ VmasAt(a, p) # {} => mm.mem[mm.as[a].pt[p].phys] = mm.as[a].pt[p].seen

(* C8: a present PTE of an address inside a VMA carries protection bits    *)
(* consistent with the flags of the VMA: it is a user page, it is writable *)
(* only if the VMA has the write flag and executable only if the VMA has   *)
(* the exec flag.                                                          *)
C8_PteMatchesVma ==
    \A a \in AddressSpaces : \A p \in DOMAIN mm.as[a].pt : \A i \in VmasAt(a, p) :
        LET pte == mm.as[a].pt[p].flags
            vma == mm.as[a].vma_list[i].flags
        IN /\ "PTE_USER" \in pte
           /\ "PTE_WRITABLE" \in pte => "VMA_WRITE" \in vma
           /\ "PTE_NX" \notin pte => "VMA_EXEC" \in vma

(* C9: in every VMA list each VMA has start < end, the starts increase     *)
(* strictly along the list, and the VMAs are pairwise disjoint.            *)
C9_VmaListOrdered ==
    \A a \in AddressSpaces :
        LET l == mm.as[a].vma_list IN
        /\ \A i \in 1..Len(l) : l[i].start < l[i].end
        /\ \A i \in 1..Len(l), j \in 1..Len(l) :
               i < j => l[i].start < l[j].start /\ l[i].end <= l[j].start

(* The locks thread t holds in its cap_copy or cap_mint *)
CapHolds(t) ==
    LET k == cap.call[t]
        all == lock_order(k.dst, k.src)
    IN IF k.pc \in {"lock", "spin", "body"}
       THEN {all[i] : i \in 1..Len(all)} \ {k.locks[i] : i \in 1..Len(k.locks)}
       ELSE {}

(* Thread t spins for a lock whose ticket is not served yet *)
CapSpins(t) ==
    /\ cap.call[t].pc = "spin"
    /\ cap.cs[Head(cap.call[t].locks)].lock.now_serving # cap.call[t].ticket

(* C12: after cap_revoke succeeded in a space, cap_lookup does not return  *)
(* a capability whose generation is older than the generation of the space *)
C12_RevokedInvalid ==
    \A t \in CapThreads :
        cap.call[t].op = "lookup" /\ cap.call[t].found => ~cap.call[t].stale

(* C13: rights never grow by derivation.  A capability made by cap_copy    *)
(* has the rights and the object of its source, one made by cap_mint has   *)
(* the source's rights intersected with the requested mask, and over a     *)
(* chain of derivations the rights stay within the rights the chain        *)
(* started with                                                            *)
C13_RightsNeverGrow ==
    \A c \in CSpaces : \A i \in CapSlots :
        LET s == cap.cs[c].slots[i] IN
        s.type # "CAP_TYPE_NONE" =>
            /\ s.der.op = "copy" => s.rights = s.der.rights /\ s.object = s.der.object
            /\ s.der.op = "mint" => s.rights = s.der.rights \cap s.der.mask
            /\ s.der.op \in {"copy", "mint"} => s.rights \subseteq s.der.rights
            /\ s.rights \subseteq s.orig

(* A capability minted from a copied capability, with a mask that asks    *)
(* for a right its source lacks                                            *)
C13_Witness ==
    \E c, d \in CSpaces : \E i, j \in CapSlots :
        /\ cap.cs[c].slots[i].der.op = "mint"
        /\ cap.cs[c].slots[i].der.from_op = "copy"
        /\ ~(cap.cs[c].slots[i].der.mask \subseteq cap.cs[c].slots[i].der.rights)
        /\ cap.cs[d].slots[j].der.op = "copy"

(* C14: cap_copy and cap_mint succeed only if the source capability bears  *)
(* Grant; with an empty source slot or a source without Grant the call     *)
(* fails and changes the slots, bitmap and used count of neither space     *)
C14_GrantRequired ==
    \A t \in CapThreads :
        cap.call[t].op \in {"copy", "mint"} /\ cap.call[t].pc = "idle" =>
            /\ cap.call[t].result >= 0 => cap.call[t].src_ok
            /\ ~cap.call[t].src_ok => cap.call[t].result = -1 /\ ~cap.call[t].modified

(* A cap_copy or cap_mint has failed on an occupied source without Grant *)
C14_Witness ==
    \E t \in CapThreads :
        LET k == cap.call[t] IN
        /\ k.op \in {"copy", "mint"} /\ k.pc = "idle" /\ k.result = -1
        /\ k.src_slot < cap.cs[k.src].size
        /\ cap.cs[k.src].slots[k.src_slot].type # "CAP_TYPE_NONE"
        /\ "CAP_RIGHT_GRANT" \notin cap.cs[k.src].slots[k.src_slot].rights

(* C15: no deadlock among cap_copy and cap_mint calls.  There is no set of *)
(* threads each of which spins for a lock that a thread of the set holds   *)
C15_NoDeadlock ==
    \A X \in SUBSET CapThreads :
        X # {} => \E t \in X :
                     ~(CapSpins(t) /\ \E u \in X : Head(cap.call[t].locks) \in CapHolds(u))

(* Two calls between the same two spaces in opposite directions, one       *)
(* holding a lock the other spins for                                      *)
C15_Witness ==
    \E t, u \in CapThreads :
        /\ t # u
        /\ cap.call[t].dst # cap.call[t].src
        /\ cap.call[t].dst = cap.call[u].src /\ cap.call[t].src = cap.call[u].dst
        /\ CapSpins(t)
        /\ Head(cap.call[t].locks) \in CapHolds(u)

(* C16: of a blocking sender and a blocking receiver on the endpoint only   *)
(* one queues and the other takes the rendezvous path: the send queue and  *)
(* the receive queue are never both non-empty, the send queue holds only   *)
(* send records and the receive queue only receive records                 *)
C16_OneRendezvousPath ==
    /\ list_empty(ep.send_queue) \/ list_empty(ep.recv_queue)
    /\ \A i \in 1..Len(ep.send_queue) : wait[ep.send_queue[i]].operation = IPC_OP_SEND
    /\ \A i \in 1..Len(ep.recv_queue) : wait[ep.recv_queue[i]].operation = IPC_OP_RECV

(* A receiver has taken a queued sender off the send queue, after a sender *)
(* had handed a message to a queued receiver                               *)
C16_Witness ==
    /\ ep.msgs_sent > 0
    /\ \E r \in Threads :
          /\ call[r].op = "recv" /\ pc[r] = "wakeup"
          /\ call[call[r].peer].op = "send"
          /\ wait[call[r].peer].operation = IPC_OP_SEND

(* The message in sender t's buffer is in thread p's receive buffer, or a   *)
(* receive has already returned it                                         *)
Transferred(t, p) ==
    \/ msg[p].tag = msg[t].tag /\ msg[p].regs = msg[t].regs
    \/ recv_log[msg[t].tag.label] > 0

(* C17: in a rendezvous the message is in the receiver's buffer before the *)
(* sender's ipc_send returns success and before the receiver runs again:   *)
(* from the step that marks a wait record IPC_OK or gives the sender the   *)
(* result IPC_OK, the receiver's buffer holds the message                  *)
C17_CopyBeforeSuccess ==
    \A t \in Threads :
        /\ call[t].op = "send" /\ pc[t] \in {"wakeup", "put"} /\ call[t].result = IPC_OK
           => Transferred(t, IF wait[t].operation = IPC_OP_SEND
                             THEN wait[t].partner ELSE call[t].peer)
        /\ wait[t].operation = IPC_OP_SEND /\ wait[t].result = IPC_OK
           => Transferred(t, wait[t].partner)
        /\ wait[t].operation = IPC_OP_RECV /\ wait[t].result = IPC_OK
           => /\ msg[t].tag.label \in Labels \ {0}
              /\ msg[t].regs = SendMsg(msg[t].tag.label - 100, {}).regs

(* A sender that had queued is back in ipc_send with the result IPC_OK,    *)
(* after an earlier message was handed to a queued receiver                *)
C17_Witness ==
    /\ \E t \in Threads :
          call[t].op = "send" /\ pc[t] = "put" /\ call[t].result = IPC_OK
          /\ wait[t].operation = IPC_OP_SEND
    /\ ep.msgs_sent > 0

(* C18: msgs_sent equals the number of completed sends: every step adds   *)
(* to msgs_sent the number of sends it completes, those handed directly    *)
(* to a queued receiver by ipc_send and those of queued senders a          *)
(* receiver drains in ipc_recv, and no other step changes the counter      *)
C18_MsgsSentCountsSends ==
    [][LET handed == {t \in Threads : call[t].op = "send" /\ pc[t] = "ipc_send"
                                       /\ pc'[t] = "wakeup"}
           drained == {t \in Threads : wait[t].operation = IPC_OP_SEND
                                        /\ wait[t].result # IPC_OK
                                        /\ wait'[t].operation = IPC_OP_SEND
                                        /\ wait'[t].result = IPC_OK}
       IN ep'.msgs_sent = ep.msgs_sent + Cardinality(handed) + Cardinality(drained)]_vars

SchedEntries ==
    IF panicked THEN {}
    ELSE LET tick == sched_tick(K0)
             woke == thread_wakeup(K0, SleepChan)
             Preempts(K) == K.rq.curr # Idle /\ "TF_NEED_RESCHED" \in K.th[K.rq.curr].flags
         IN {K0 : t \in {u \in Threads : rq.curr = u /\ pc[u] \in {"ts_sched", "sy_sched"}}}
            \cup {[K0 EXCEPT !.th[t].state = TASK_ZOMBIE, !.th[t].flags = @ \cup {"TF_EXITING"}] :
                      t \in {u \in Threads : rq.curr = u /\ pc[u] = "start"}}
            \cup {[K0 EXCEPT !.th[t].flags = @ \ {"TF_NEED_RESCHED"}] :
                      t \in {u \in {Idle} : rq.curr = u /\ "TF_NEED_RESCHED" \in thread[u].flags}}
            \cup {[K0 EXCEPT !.th[t].flags = @ \cup {"TF_NEED_RESCHED"}] :
                      t \in {u \in {Idle} : rq.curr = u}}
            \cup {K \in {tick, woke} : Preempts(K)}

(* The thread a scheduling decision has to select: with the current thread *)
(* back on its queue if it is still runnable, the head of the non-empty    *)
(* queue of the lowest priority number, the idle thread if there is none   *)
Selected(K) ==
    LET prev == K.rq.curr
        Q(p) == IF K.th[prev].state = TASK_RUNNING /\ prev # Idle /\ K.th[prev].priority = p
                THEN Append(QueueAt(K.rq, p), prev) ELSE QueueAt(K.rq, p)
        nonempty == {p \in 0..(MAX_PRIO - 1) : Q(p) # <<>>}
    IN IF nonempty = {} THEN Idle ELSE Head(Q(SetMin(nonempty)))

(* C20: every scheduling decision selects the head of the non-empty run    *)
(* queue with the lowest priority number, the current thread counted as    *)
(* re-enqueued if it is still runnable, and the idle thread only when all  *)
(* queues are empty                                                        *)
C20_PickHighestPriority ==
    \A K \in SchedEntries : schedule(K).rq.curr = Selected(K)

(* A decision between threads on two queues of different priority, the     *)
(* lower-numbered queue not the one of the current thread, which is        *)
(* switched out                                                            *)
C20_Witness ==
    \E K \in SchedEntries :
        \E p, q \in DOMAIN K.rq.queue :
            /\ p < q /\ K.rq.queue[p] # <<>> /\ K.rq.queue[q] # <<>>
            /\ K.th[K.rq.curr].priority # p
            /\ schedule(K).rq.curr = Head(K.rq.queue[p])
            /\ schedule(K).rq.curr # K.rq.curr

Recurses(K, K1) == K1.rq.curr = K.rq.curr /\ ReschedPending(K1)

WaitAsleep(t) ==
    /\ proc.pc[t] = "pw_clear"
    /\ proc.th[t].state = TASK_INTERRUPTIBLE
    /\ proc.rq.curr # t
    /\ ~OnRunQueue(PK, t)

(* Child c is a zombie that issues no wake-up any more: thread_exit is    *)
(* past thread_wakeup(parent), or the zombie was switched out before it.   *)
ExitSpent(c) ==
    /\ proc.th[c].state = TASK_ZOMBIE
    /\ \/ proc.pc[c] \in {"te_sched", "exited"}
       \/ proc.pc[c] = "te_wake" /\ proc.rq.curr # c /\ ~OnRunQueue(PK, c)

FreedOnce == [thread |-> 1, stack |-> 1, mm |-> 1, pid |-> 1, proc |-> 1]

(* C25: process_wait returns the PID of a child only if the child's main  *)
(* thread is a zombie; at the return the child is off the parent's         *)
(* children list and its thread, kernel stack, address space, PID and      *)
(* struct process have each been freed once.  Nothing is ever freed twice, *)
(* and every PID of a live process stays allocated.                        *)
C25_ReapOnce ==
    [][/\ \A t \in Procs :
            proc.pc[t] = "pw_scan" /\ proc'.pc[t] = "user" /\ proc'.res[t] >= 0 =>
                \E c \in Procs :
                    /\ InSeq(proc.p[t].children, c)
                    /\ proc.p[c].pid = proc'.res[t]
                    /\ proc.p[c].main_thread = c
                    /\ proc.th[c].state = TASK_ZOMBIE
                    /\ ~InSeq(proc'.p[t].children, c)
                    /\ proc'.p[c].freed = FreedOnce
                    /\ ~proc'.p[c].alloc
                    /\ proc'.res[t] \notin proc'.bitmap
       /\ \A s \in Procs :
            /\ \A f \in DOMAIN FreedOnce : proc'.p[s].freed[f] <= 1
            /\ proc'.p[s].alloc => proc'.p[s].pid \in proc'.bitmap
            /\ \A s2 \in Procs \ {s} :
                 proc'.p[s].alloc /\ proc'.p[s2].alloc => proc'.p[s].pid # proc'.p[s2].pid
      ]_vars

(* A parent is back from wait with the PID of a child that ran, exited   *)
(* and was reaped, while another process it forked is alive.               *)
C25_Witness ==
    \E t \in Procs, c \in Procs, d \in Procs :
        /\ proc.pc[t] = "user" /\ proc.res[t] = proc.p[c].pid
        /\ proc.p[c].parent = t /\ proc.p[c].freed = FreedOnce
        /\ proc.th[c].state = TASK_ZOMBIE
        /\ d # c /\ proc.p[d].parent = t /\ proc.p[d].alloc

(* C26: when the last thread of a process other than the first one (PID 1) *)
(* exits, every process on its children list gets init_process as parent   *)
(* and is on the children list of init_process afterwards.                  *)
C26_ReparentedToInit ==
    [][\A s \in Procs :
          /\ proc.pc[s] = "user" /\ proc'.pc[s] = "te_wake"
          /\ proc.p[s].pid # 1
          => \A i \in 1..Len(proc.p[s].children) :
                LET child == proc.p[s].children[i]
                IN /\ init_process # NoProc
                   /\ proc'.p[child].parent = init_process
                   /\ InSeq(proc'.p[init_process].children, child)
      ]_vars

(* C27: alloc_pid returns the lowest free PID at or after the cursor, or, *)
(* when there is none, the lowest free PID from 1 on; it sets the bit of    *)
(* that PID, which was clear, and never returns 0.  With every PID taken    *)
(* it returns -1 and leaves the bitmap as it was.                           *)
C27_AllocPid ==
    proc.last.op = "alloc" =>
        LET B == proc.last.bitmap
            pid == proc.last.pid
            free == {i \in 1..(PID_MAX - 1) : i \notin B}
            after == {i \in free : i >= proc.last.next_pid}
        IN IF free = {}
           THEN pid = -1 /\ proc.bitmap = B
           ELSE /\ pid = IF after # {} THEN SetMin(after) ELSE SetMin(free)
                /\ pid # 0 /\ pid \notin B
                /\ proc.bitmap = B \cup {pid}

(* The last alloc_pid wrapped around: its PID lies below the cursor, with *)
(* every PID from the cursor on taken.                                      *)
C27_Witness ==
    /\ proc.last.op = "alloc"
    /\ proc.last.pid >= 1 /\ proc.last.pid < proc.last.next_pid
    /\ proc.last.next_pid < PID_MAX - 1

(* The zone after alloc_pages(order) and free_pages of the block returned *)
RoundTrip(P, order) ==
    LET r == alloc_pages(P, order)
    IN IF r.page = NoPage THEN P ELSE free_pages(r.P, r.page, order)

(* C28: from every state the allocator reaches, allocating a block of any *)
(* order and freeing it leaves every free-area list with the blocks it     *)
(* held before, at the same orders, splits and coalescing included.        *)
C28_AllocFreeRestores ==
    ~Relinked(pmm) =>
        \A order \in AllocOrders :
            LET P == [zone |-> pmm.zone, page |-> pmm.page]
            IN \A k \in 0..(MAX_ORDER - 1) : Listed(RoundTrip(P, order), k) = Listed(P, k)

(* A block was taken by splitting a larger one and has been given back *)
C28_Witness ==
    /\ pmm.trip.phase = "freed" /\ pmm.trip.split
    /\ ~Relinked(pmm)
    /\ \E order \in AllocOrders :
          /\ FirstFit(pmm, order) > order
          /\ alloc_pages([zone |-> pmm.zone, page |-> pmm.page], order).page # NoPage

(* C29: the number of clear bits of the occupancy bitmap equals the     *)
(* free_pages counter of the zone (the sum over the zones, of which the    *)
(* model has one) in every state from pmm_init on.                          *)
C29_BitmapMatchesZones ==
    bitmap_count_free(pmm.bits) = pmm.zone.free_pages

(* The pages address space record A knows: those of its VMAs and its PTEs *)
PagesOf(A) ==
    UNION {A.vma_list[i].start..(A.vma_list[i].end - 1) : i \in 1..Len(A.vma_list)}
        \cup DOMAIN A.pt

(* The protection the VMAs of A give page p, and the flags of its PTE *)
ProtAt(A, p) ==
    {A.vma_list[i].flags \cap {"VMA_READ", "VMA_WRITE", "VMA_EXEC"} :
        i \in {j \in 1..Len(A.vma_list) : p >= A.vma_list[j].start /\ p < A.vma_list[j].end}}

PteAt(A, p) == IF p \in DOMAIN A.pt THEN A.pt[p].flags ELSE {}

(* C30: a successful mprotect of a non-empty range [addr, addr + size)   *)
(* gives every page of the range the new protection, in the flags of its    *)
(* VMA and in its PTE if one is present, and leaves the VMA protection and  *)
(* the PTE of every page outside the range as they were.                    *)
(* Address spaces with overlapping VMAs are left out.                       *)
C30_MprotectExactRange ==
    \A a \in AddressSpaces, addr \in VAddrs, size \in Sizes \ {0}, prot \in ProtArgs :
        LET r == vmm_mprotect(mm, a, addr, size, prot)
            A == mm.as[a]
            A1 == r.m.as[a]
        IN Live(a) /\ r.ret = 0 /\ (\A p \in PagesOf(A) : Cardinality(VmasAt(a, p)) <= 1) =>
             \A p \in PagesOf(A) :
                 IF p >= addr /\ p < addr + size
                 THEN /\ ProtAt(A1, p) = {prot}
                      /\ p \in DOMAIN A1.pt =>
                           A1.pt[p].flags \cap {"PTE_WRITABLE", "PTE_NX"}
                               = vma_to_pte_flags(prot) \cap {"PTE_WRITABLE", "PTE_NX"}
                 ELSE /\ ProtAt(A1, p) = ProtAt(A, p)
                      /\ PteAt(A1, p) = PteAt(A, p)

(* The flags of the VMAs of address space record A that cover page p *)
FlagsAt(A, p) ==
    {A.vma_list[i].flags :
        i \in {j \in 1..Len(A.vma_list) : p >= A.vma_list[j].start /\ p < A.vma_list[j].end}}

(* C31: unmapping a non-empty range [start, start + size) leaves no VMA    *)
(* that intersects the range and no present PTE inside it, and every page  *)
(* outside the range that a VMA covered before is still covered with the   *)
(* same flags, whether the range spans VMA boundaries or lies inside a VMA. *)
C31_UnmapSplits ==
    \A a \in AddressSpaces, start \in VAddrs, size \in 1..NVPages :
        LET A == mm.as[a]
            A1 == vmm_unmap_region(mm, a, start, size).as[a]
            end == start + size
        IN Live(a) =>
             /\ \A i \in 1..Len(A1.vma_list) :
                    ~(A1.vma_list[i].start < end /\ A1.vma_list[i].end > start)
             /\ \A p \in DOMAIN A1.pt : p < start \/ p >= end
             /\ \A p \in PagesOf(A) : p < start \/ p >= end => FlagsAt(A1, p) = FlagsAt(A, p)

(* get_free_page hands out the free frames in ascending order *)
Ascending == [i \in 1..NFrames |-> i]

(* C32: a page the page-fault handler maps, by demand paging inside a VMA   *)
(* or by growth of a stack VMA, gets the protections of the VMA that covers *)
(* it: the PTE is writable exactly if the VMA has the write flag, and for a *)
(* VMA without the exec flag it has PTE_NX.                                 *)
C32_FaultMapsVmaProt ==
    \A a \in AddressSpaces, addr \in VAddrs, is_write \in BOOLEAN :
        LET A == mm.as[a]
            error_code == {"PF_USER"} \cup (IF is_write THEN {"PF_WRITE"} ELSE {})
            r == vmm_page_fault(mm, a, addr, error_code, FreeIn(Ascending))
            A1 == r.m.as[a]
        IN Live(a) /\ addr \notin DOMAIN A.pt /\ r.ret = 0 =>
             \A p \in DOMAIN A1.pt \ DOMAIN A.pt : \A flags \in FlagsAt(A1, p) :
                 /\ "PTE_WRITABLE" \in A1.pt[p].flags <=> "VMA_WRITE" \in flags
                 /\ "VMA_EXEC" \notin flags => "PTE_NX" \in A1.pt[p].flags

(* C35: the initial stack exec builds is a VMA marked VMA_STACK, and a     *)
(* fault at the page below it, one of the STACK_GROW_PAGES pages below its *)
(* start, is handled as stack growth: with a frame free the handler        *)
(* succeeds and the VMA starts at the faulting page.                       *)
C35_ExecStackGrows ==
    \A a \in AddressSpaces :
        LET l == mm.as[a].vma_list IN
        \A i \in 1..Len(l) :
            LET addr == l[i].start - 1
                r == vmm_page_fault(mm, a, addr, {"PF_USER", "PF_WRITE"}, FreeIn(Ascending))
            IN Live(a) /\ l[i].end = USER_STACK_TOP /\ mm.free # {} =>
                 /\ "VMA_STACK" \in l[i].flags
                 /\ r.ret = 0
                 /\ r.m.as[a].vma_list[i].start = addr

(* C33: with one sender and one receiver on the endpoint, the k-th message *)
(* an ipc_recv call returns with IPC_OK has the label and the data         *)
(* registers of the k-th message handed over from an ipc_send call, and    *)
(* the messages are handed over in the order of the ipc_send calls, with   *)
(* the registers that belong to their label.                               *)
C33_ReceivedInSendOrder ==
    Cardinality({t \in Threads : Role(t) = "send"}) = 1
        /\ Cardinality({t \in Threads : Role(t) = "recv"}) = 1 =>
    /\ Len(ipc_log.rcvd) <= Len(ipc_log.sent)
    /\ \A k \in 1..Len(ipc_log.rcvd) : ipc_log.rcvd[k] = ipc_log.sent[k]
    /\ \A k \in 1..Len(ipc_log.sent) :
           /\ \E i \in 0..(NThreads * MaxOps) : ipc_log.sent[k] = Content(SendMsg(i, {}))
           /\ \A j \in 1..(k - 1) : ipc_log.sent[j].label < ipc_log.sent[k].label

(* Two messages were received, the first handed over to a receiver that    *)
(* waited and the second taken from a sender that waited, or the reverse   *)
C33_Witness ==
    /\ Len(ipc_log.rcvd) = 2
    /\ ipc_log.rcvd[1].label + 1 = ipc_log.rcvd[2].label
    /\ ipc_log.rcvd[1].regs = <<Reg(CAFE, ipc_log.rcvd[1].label - 100),
                                Reg(DEAD, ipc_log.rcvd[1].label - 100)>>
    /\ ep.msgs_sent = 1 /\ ep.msgs_received = 1

(* C34: ipc_call returns IPC_OK only after its request was handed over to  *)
(* a receiver and a reply was received into the caller's message buffer.   *)
(* The call is taken at the return of its ipc_send.                        *)
C34_CallReceivesReply ==
    \A t \in Threads :
        pc[t] = "put" /\ call[t].op = "send" =>
            LET r == ipc_call(t, call[t].result)
            IN r.result = IPC_OK =>
                 /\ \E k \in 1..Len(ipc_log.sent) : ipc_log.sent[k] = Passed(t)
                 /\ r.received

(* C36: a vmm_map_region that passes the overlap check and fails part-way, *)
(* the allocator running out of frames, is rolled back: no VMA covers any  *)
(* part of [start, start + size), no page of the range stays mapped, and   *)
(* total_vm has the value it had before the call.                          *)
C36_MapRegionRollsBack ==
    \A a \in AddressSpaces, start \in VAddrs, size \in 1..NVPages, flags \in VmaFlagArgs :
        LET A == mm.as[a]
            r == vmm_map_region(mm, a, start, size, flags, FreeIn(Ascending))
            A1 == r.m.as[a]
            end == start + size
        IN Live(a) /\ vma_find_intersect(A.vma_list, start, end) = 0
               /\ Cardinality(mm.free) < size =>
             /\ r.ret = -1
             /\ \A i \in 1..Len(A1.vma_list) :
                    ~(A1.vma_list[i].start < end /\ A1.vma_list[i].end > start)
             /\ \A p \in DOMAIN A1.pt : p < start \/ p >= end
             /\ A1.total_vm = A.total_vm

(* C37: no frame is in the hands of the page allocator while a present     *)
(* PTE of a live address space maps it: destroying the address space of a  *)
(* forked child and resolving a copy-on-write fault leave the frames the   *)
(* other address space maps allocated.                                     *)
C37_MappedFramesAllocated ==
    \A a \in AddressSpaces :
        Live(a) => \A p \in DOMAIN mm.as[a].pt : mm.as[a].pt[p].phys \notin mm.free

(* The frames of the block of 2^order pages at pfn, of the blocks callers  *)
(* hold and of the blocks on the free lists of P                           *)
BlockFrames(pfn, order) == pfn..(pfn + 2^order - 1)

HeldFrames == UNION {BlockFrames(b[1], b[2]) : b \in pmm.held}

FreeFrames(P) ==
    UNION {UNION {BlockFrames(f, o) : f \in Listed(P, o)} : o \in 0..(MAX_ORDER - 1)}

C39_PreemptBalanced ==
    \A t \in AllThreads : Running(t) => rq.preempt_count = 0

(* The slots of the space that hold a capability *)
Occupied(cs) == {i \in 0..(cs.size - 1) : cs.slots[i].type # "CAP_TYPE_NONE"}

(* C40: in every capability space, after any sequence of cap_insert,       *)
(* cap_delete, cap_copy and cap_mint, the bitmap bit of a slot is set      *)
(* exactly when the slot holds a capability, and used is the number of    *)
(* the occupied slots.                                                     *)
C40_BitmapMatchesSlots ==
    \A c \in CSpaces :
        /\ cap.cs[c].bitmap = Occupied(cap.cs[c])
        /\ cap.cs[c].used = Cardinality(Occupied(cap.cs[c]))

(* A cap_copy or cap_mint has filled slot 1 of a space whose slot 0 was    *)
(* emptied by cap_delete                                                   *)
C40_Witness ==
    /\ \E t \in CapThreads :
          /\ cap.call[t].op \in {"copy", "mint"}
          /\ cap.call[t].pc = "idle"
          /\ cap.call[t].result = 1
    /\ \E c \in CSpaces : Occupied(cap.cs[c]) = {1}

(* C11: zone free-list invariant.  The frames a free area lists at order *)
(* k are exactly the frames flagged in-buddy whose order is k, and nr_free *)
(* equals the number of frames the list holds                              *)
C11_FreeListInvariant ==
    \A k \in 0..(MAX_ORDER - 1) :
        /\ Listed(pmm, k) = {f \in ZonePfns : pmm.page[f].buddy /\ pmm.page[f].order = k}
        /\ pmm.zone.free_area[k].nr_free = Cardinality(Listed(pmm, k))
        /\ pmm.zone.free_area[k].nr_free = Len(pmm.zone.free_area[k].free_list)

(* C10: allocating a block of order k and freeing it again leaves the     *)
(* zone statistics as they were: free_pages after the free equals its      *)
(* value before the allocation, and so does the number of free blocks of   *)
(* every order, also when the allocation split a larger block and the      *)
(* free coalesced buddies.                                                 *)
C10_RoundTrip ==
    pmm.trip.phase = "freed" => pmm.trip.after = pmm.trip.before

====
